---- MODULE Spec2Model ----
(***************************************************************************)
(* The dump pipeline of dumpling (v4/export): the two format encoders      *)
(* WriteInsert and WriteInsertInCsv, the writer pipe and its drain worker, *)
(* the intercepting (lazily opened) file sink and the rotation loop of     *)
(* FileWriter.writeTableData.                                              *)
(*                                                                         *)
(* Bytes are modelled as sequences of tokens, each token standing for one  *)
(* run of bytes the encoder appends in one piece (a special comment line,  *)
(* the CSV header, an INSERT prefix, a row tuple, a terminator); Size      *)
(* gives the byte length of a token.                                       *)
(***************************************************************************)
EXTENDS Integers, Sequences, FiniteSets, TLC

VARIABLES
    cfg,                \* Config and TableMeta of the dump (fixed after Init)
    rows,               \* the source's rows: rows[i] is the byte length of row i's tuple
    pos,                \* rows the iterator has advanced past (calls of Next)
    iterErr,            \* SQLRowIter.Error() # nil
    iterClosed,         \* SQLRowIter.Close() was called
    pCtxDone,           \* the caller's context (pCtx) is cancelled
    epc,                \* the encoder's position
    bf,                 \* the encoder's in-flight buffer
    wp,                 \* writerPipe counters: currentFileSize, currentStatementSize
    shouldSwitch,       \* WriteInsert's local shouldSwitch
    ret,                \* the encoder's return value
    input,              \* writerPipe.input: the buffered channel of filled buffers
    inputClosed,        \* close(wp.input) happened
    errCh,              \* writerPipe.errCh (capacity 1)
    ictxDone,           \* the encoder's internal context (ctx) is cancelled
    wpc,                \* the drain worker's position
    cur,                \* the buffer the drain worker is writing
    errOccurs,          \* writerPipe.Run's local errOccurs
    once,               \* InterceptFileWriter's sync.Once has run
    wErr,               \* InterceptFileWriter.err # nil
    writerSet,          \* buildInterceptFileWriter's writer # nil
    SomethingIsWritten, \* InterceptFileWriter.SomethingIsWritten
    sink,               \* bytes the underlying upload writer has accepted
    createCalls,        \* calls of ExternalStorage.CreateUploader for this sink
    closeCalls,         \* calls of the underlying writer's Close for this sink
    writeCalls,         \* calls of InterceptFileWriter.Write on this sink
    dpc,                \* writeTableData's position
    dret,               \* writeTableData's return value
    namerIndex,         \* outputFileNamer.Index
    files,              \* the upload objects finished so far, in order of creation
    sent,               \* history: bytes the encoder handed to the pipe in this invocation
    offered,            \* history: payload bytes offered to the sink through Write
    writeFailed,        \* history: a sink Write returned an error in this invocation
    workerStarted,      \* history: this invocation started a drain worker
    startedEmpty,       \* history: this invocation found no row at its first HasNext
    rowsThisInv,        \* history: rows decoded by this invocation
    cancelAt,           \* history: where the encoder was when pCtx was cancelled
    rowsAfterCancel,    \* history: rows decoded by this invocation after the cancellation
    lateWrites,         \* history: sink Writes begun after the encoder had returned
    tpc,                \* WriteTableData's position ("none": writeTableData runs on its own)
    irStream,           \* the Table Data Sources still to come on irStream
    channelClosed,      \* WriteTableData's local channelClosed
    chunkIndex,         \* WriteTableData's local chunkIndex
    held,               \* connections WriteTableData took from the pool and has not released
    pool,               \* connections in the connectionsPool
    tret,               \* WriteTableData's return value
    texit,              \* history: the statement WriteTableData returned from
    srcNo,              \* history: sources WriteTableData has received
    invocations,        \* history: encoder invocations of this writeTableData call
    fileSrc,            \* history: for each finished file, the source it was written for
    fileIdx,            \* history: for each finished file, the Index its name was rendered with
    names,              \* history: the calls of NextName, each with its source and Index
    iterCalls,          \* history: the Decode and Next calls on the current Row Iterator
    underWrites,        \* history: calls of the underlying writer's Write for this sink
    lastRes,            \* history: what the last Write on this sink returned
    panicked,           \* a nil dereference stopped the program
    errsRecorded,       \* history: errors the drain worker put into errCh
    writesAfterFail,    \* history: sink Writes the drain worker began after a failed one
    discarded,          \* history: buffers the drain worker received and dropped unwritten
    errResults,         \* history: what the calls of writerPipe.Error() returned, in order
    buffers,            \* the *bytes.Buffer objects: who holds which, and the sync.Pool
    fin,                \* the arguments of the function being applied
    fout,               \* its result so far
    fpc                 \* its position

srcVars  == <<cfg, rows, pos, iterErr, iterClosed>>
encVars  == <<epc, bf, wp, shouldSwitch, ret>>
pipeVars == <<input, inputClosed, errCh, ictxDone, wpc, cur, errOccurs>>
sinkVars == <<once, wErr, writerSet, SomethingIsWritten, sink, createCalls, closeCalls,
              writeCalls, offered>>
drvVars  == <<dpc, dret, namerIndex, files>>
histVars == <<sent, writeFailed, workerStarted, startedEmpty, rowsThisInv,
              cancelAt, rowsAfterCancel, lateWrites>>
tblVars  == <<tpc, irStream, channelClosed, chunkIndex, held, pool, tret, texit, srcNo>>
callHist == <<fileIdx, names, iterCalls>>
drvHist  == <<invocations, fileSrc, callHist>>
sinkHist == <<underWrites, lastRes, panicked>>
pipeHist == <<errsRecorded, writesAfterFail, discarded, errResults, buffers>>
fnVars   == <<fin, fout, fpc>>
vars == <<srcVars, pCtxDone, encVars, pipeVars, sinkVars, drvVars, histVars,
          tblVars, drvHist, sinkHist, pipeHist, fnVars>>

----------------------------------------------------------------------------
(* Program constants *)

\* const lengthLimit
lengthLimit == 1048576
\* the capacity of writerPipe.input
inputCap == 8
\* the value of an unset size limit (validateFileSize calls a set one non-zero)
UnspecifiedSize == 0

(* Bounds of the model *)

MaxRows == 3
SmallRowLen == 5
CommentLen == 29
HeaderLen == 7
TableNameLen == 1
SmallFileSize == 35
SmallStatementSize == 32
TinySize == 1
MaxSinkWrites == 4
PoolSize == 2
MaxSources == 2
MaxSourceRows == 2
MaxNameLen == 3
MaxFields == 2
MaxCols == 3
MaxCmts == 2
MaxPipeSends == 3
MaxBigRows == 10
MaxErrorCalls == 3

\* a row larger than the in-flight buffer's initial capacity
BigRowLen == 2 * lengthLimit

RowSizes == {SmallRowLen, BigRowLen}
FileSizes == {UnspecifiedSize, TinySize, SmallFileSize}
StatementSizes == {UnspecifiedSize, TinySize, SmallStatementSize}

----------------------------------------------------------------------------
(* Bytes *)

Tok(k, i) == [k |-> k, i |-> i]
Comment == Tok("cmt", 0)
Header == Tok("hdr", 0)
Prefix == Tok("prefix", 0)
Comma == Tok("comma", 0)
Semi == Tok("semi", 0)
Newline == Tok("nl", 0)
Row(i) == Tok("row", i)

\* len("INSERT INTO `` VALUES\n") plus the table name
insertStatementPrefixLen == 22 + TableNameLen

Size(t) ==
    CASE t.k = "cmt" -> CommentLen
      [] t.k = "hdr" -> HeaderLen
      [] t.k = "prefix" -> insertStatementPrefixLen
      [] t.k = "row" -> rows[t.i]
      [] t.k = "comma" -> 2
      [] t.k = "semi" -> 2
      [] t.k = "nl" -> 1

RECURSIVE BufLen(_)
BufLen(s) == IF s = <<>> THEN 0 ELSE Size(Head(s)) + BufLen(Tail(s))

RECURSIVE Flatten(_)
Flatten(ss) == IF ss = <<>> THEN <<>> ELSE Head(ss) \o Flatten(Tail(ss))

RowsOf(s) == SelectSeq(s, LAMBDA t : t.k = "row")

----------------------------------------------------------------------------
(* Config, TableMeta and the Row Iterator *)

Configs ==
    [fileFmt : {"sql"}, FileSize : FileSizes, StatementSize : StatementSizes,
     NoHeader : {TRUE}, specCmts : {0, 1}, colNames : {1}]
    \cup
    [fileFmt : {"csv"}, FileSize : FileSizes, StatementSize : {SmallStatementSize},
     NoHeader : BOOLEAN, specCmts : {1}, colNames : {1}]

RowSeqs == UNION {[1..n -> RowSizes] : n \in 0..MaxRows}

\* SQLRowIter.HasNext: false at the natural end and after an error
HasNext == ~iterErr /\ pos < Len(rows)

\* SQLRowIter.Next: advances; fetching the following row may fail
IterNext(fails) ==
    /\ pos' = pos + 1
    /\ iterErr' = fails

\* the special comments WriteInsert writes first, each followed by '\n'
SpecialComments == [i \in 1..cfg.specCmts |-> Comment]

\* the header line WriteInsertInCsv writes first
CsvHeader == IF ~cfg.NoHeader /\ cfg.colNames # 0 THEN <<Header>> ELSE <<>>

----------------------------------------------------------------------------
(* writerPipe *)

newWriterPipe == [currentFileSize |-> 0, currentStatementSize |-> 0]

fileSizeLimit == cfg.FileSize

\* WriteInsertInCsv builds its pipe with UnspecifiedSize as the statement limit
statementSizeLimit ==
    IF cfg.fileFmt = "csv" THEN UnspecifiedSize ELSE cfg.StatementSize

\* writerPipe.Error: a receive from errCh with a default case; err is what it
\* returns and errCh the channel it leaves
Error(ch) ==
    IF ch # <<>>
      THEN [err |-> Head(ch), errCh |-> Tail(ch)]
      ELSE [err |-> "nil", errCh |-> ch]

\* a slip: the bytes are added to the statement counter only
AddFileSize_StatementOnly(w, n) ==
    [w EXCEPT !.currentStatementSize = @ + n]

AddFileSize(w, n) ==
    [w EXCEPT !.currentFileSize = @ + n, !.currentStatementSize = @ + n]

\* a slip: the file-size limit is never found reached
ShouldSwitchFile_Never(w) == FALSE

ShouldSwitchFile(w) ==
    fileSizeLimit # UnspecifiedSize /\ w.currentFileSize >= fileSizeLimit

\* a slip: the statement-size limit is left out of the test
ShouldSwitchStatement_FileOnly(w) ==
    fileSizeLimit # UnspecifiedSize /\ w.currentFileSize >= fileSizeLimit

ShouldSwitchStatement(w) ==
    \/ fileSizeLimit # UnspecifiedSize /\ w.currentFileSize >= fileSizeLimit
    \/ statementSizeLimit # UnspecifiedSize /\ w.currentStatementSize >= statementSizeLimit

----------------------------------------------------------------------------
(* InterceptFileWriter *)

\* what Write returns: the open error, the underlying writer's error, or nil
WriteResult(openFailed, writeOk) ==
    IF openFailed THEN "open" ELSE IF writeOk THEN "nil" ELSE "write"

\* a slip: a failed open is tried again by the next Write
InterceptWrite_RetriesOpen(p, openOk, writeOk) ==
    /\ once' = TRUE
    /\ createCalls' = IF once /\ ~wErr THEN createCalls ELSE createCalls + 1
    /\ wErr' = IF once /\ ~wErr THEN wErr ELSE ~openOk
    /\ writerSet' = IF once /\ ~wErr THEN writerSet ELSE openOk
    /\ SomethingIsWritten' = (SomethingIsWritten \/ BufLen(p) > 0)
    /\ sink' = IF ~wErr' /\ writeOk THEN sink \o p ELSE sink
    /\ offered' = offered + BufLen(p)
    /\ writeCalls' = writeCalls + 1
    /\ underWrites' = IF wErr' THEN underWrites ELSE underWrites + 1
    /\ lastRes' = WriteResult(wErr', writeOk)
    /\ UNCHANGED <<closeCalls, panicked>>

\* InterceptFileWriter.Write(ctx, p): openOk is the outcome of CreateUploader
\* should the Once run now, writeOk the outcome of the underlying Write
InterceptWrite(p, openOk, writeOk) ==
    /\ once' = TRUE
    /\ createCalls' = IF once THEN createCalls ELSE createCalls + 1
    /\ wErr' = IF once THEN wErr ELSE ~openOk
    /\ writerSet' = IF once THEN writerSet ELSE openOk
    /\ SomethingIsWritten' = (SomethingIsWritten \/ BufLen(p) > 0)
    /\ sink' = IF ~wErr' /\ writeOk THEN sink \o p ELSE sink
    /\ offered' = offered + BufLen(p)
    /\ writeCalls' = writeCalls + 1
    /\ underWrites' = IF wErr' THEN underWrites ELSE underWrites + 1
    /\ lastRes' = WriteResult(wErr', writeOk)
    /\ UNCHANGED <<closeCalls, panicked>>

\* the tearDownRoutine buildInterceptFileWriter returns
TearDown ==
    closeCalls' = IF writerSet THEN closeCalls + 1 ELSE closeCalls

NewSink ==
    /\ once' = FALSE
    /\ wErr' = FALSE
    /\ writerSet' = FALSE
    /\ SomethingIsWritten' = FALSE
    /\ sink' = <<>>
    /\ createCalls' = 0
    /\ closeCalls' = 0
    /\ writeCalls' = 0
    /\ offered' = 0
    /\ underWrites' = 0
    /\ lastRes' = "none"
    /\ panicked' = FALSE

----------------------------------------------------------------------------
(* The buffers: bf of an encoder, the elements of wp.input, s of Run, and  *)
(* the package's sync.Pool.  A buffer is a number; 0 stands for no buffer. *)

\* keeps: whether the sync.Pool retains what is Put into it (it is free to
\* drop any of it)
NoBuffers == [enc |-> 0, input |-> <<>>, cur |-> 0, pool |-> {}, made |-> 0,
              keeps |-> TRUE]

\* pool.Get(): a buffer of the pool, or a new one when the pool gives none
\* (pooled buffers are all empty, so the least stands for any of them)
PoolGet(b) ==
    {[b EXCEPT !.enc = b.made + 1, !.made = b.made + 1]}
    \cup {[b EXCEPT !.enc = id, !.pool = @ \ {id}] :
             id \in {i \in b.pool : \A j \in b.pool : i <= j}}

\* wp.input <- bf
BufSend(b) == [b EXCEPT !.input = Append(@, b.enc), !.enc = 0]

\* s := <-b.input; a buffer received after an error is dropped
BufRecv(b, dropped) ==
    [b EXCEPT !.input = Tail(@), !.cur = IF dropped THEN b.cur ELSE Head(b.input)]

\* s.Reset(); pool.Put(s)
BufPut(b) == [b EXCEPT !.pool = IF b.keeps THEN @ \cup {b.cur} ELSE @, !.cur = 0]

----------------------------------------------------------------------------
(* writerPipe.Run: the drain worker *)

\* a slip: the worker takes the buffer queued last
WorkerRecv_LIFO ==
    /\ wpc = "idle"
    /\ input # <<>>
    /\ input' = SubSeq(input, 1, Len(input) - 1)
    /\ IF errOccurs
         THEN UNCHANGED <<wpc, cur>>
         ELSE wpc' = "writing" /\ cur' = input[Len(input)]
    /\ UNCHANGED <<inputClosed, errCh, ictxDone, errOccurs>>
    /\ UNCHANGED <<srcVars, pCtxDone, encVars, sinkVars, drvVars, histVars>>
    /\ UNCHANGED <<fnVars, tblVars, drvHist, sinkHist>>
    /\ discarded' = IF errOccurs THEN discarded + 1 ELSE discarded
    /\ UNCHANGED <<errsRecorded, writesAfterFail, errResults>>
    /\ buffers' = [buffers EXCEPT !.input = SubSeq(@, 1, Len(@) - 1),
                                   !.cur = IF errOccurs THEN @ ELSE buffers.input[Len(buffers.input)]]

\* a slip: errOccurs is not tested and every buffer received is written
WorkerRecv_IgnoresErrOccurs ==
    /\ wpc = "idle"
    /\ input # <<>>
    /\ input' = Tail(input)
    /\ wpc' = "writing"
    /\ cur' = Head(input)
    /\ UNCHANGED <<inputClosed, errCh, ictxDone, errOccurs>>
    /\ UNCHANGED <<srcVars, pCtxDone, encVars, sinkVars, drvVars, histVars>>
    /\ UNCHANGED <<fnVars, tblVars, drvHist, sinkHist>>
    /\ UNCHANGED <<errsRecorded, writesAfterFail, discarded, errResults>>
    /\ buffers' = BufRecv(buffers, FALSE)

\* case s, ok := <-b.input with a buffer queued
WorkerRecv ==
    /\ wpc = "idle"
    /\ input # <<>>
    /\ input' = Tail(input)
    /\ IF errOccurs
         THEN UNCHANGED <<wpc, cur>>
         ELSE wpc' = "writing" /\ cur' = Head(input)
    /\ UNCHANGED <<inputClosed, errCh, ictxDone, errOccurs>>
    /\ UNCHANGED <<srcVars, pCtxDone, encVars, sinkVars, drvVars, histVars>>
    /\ UNCHANGED <<fnVars, tblVars, drvHist, sinkHist>>
    /\ discarded' = IF errOccurs THEN discarded + 1 ELSE discarded
    /\ UNCHANGED <<errsRecorded, writesAfterFail, errResults>>
    /\ buffers' = BufRecv(buffers, errOccurs)

\* a slip: Run returns at the first error and leaves the input undrained
WorkerWrite_ReturnsOnError ==
    /\ wpc = "writing"
    /\ \E openOk \in (IF once THEN {TRUE} ELSE BOOLEAN), writeOk \in BOOLEAN :
         /\ InterceptWrite(cur, openOk, writeOk)
         /\ LET err == WriteResult(wErr', writeOk) IN
              /\ errOccurs' = (err # "nil")
              /\ errCh' = IF err # "nil" THEN Append(errCh, err) ELSE errCh
              /\ writeFailed' = (writeFailed \/ err # "nil")
              /\ errsRecorded' = IF err # "nil" THEN errsRecorded + 1 ELSE errsRecorded
    /\ wpc' = IF errOccurs' THEN "done" ELSE "idle"
    /\ cur' = <<>>
    /\ lateWrites' = IF epc = "returned" THEN lateWrites + 1 ELSE lateWrites
    /\ UNCHANGED <<input, inputClosed, ictxDone>>
    /\ UNCHANGED <<srcVars, pCtxDone, encVars, drvVars>>
    /\ UNCHANGED <<sent, workerStarted, startedEmpty, rowsThisInv, cancelAt, rowsAfterCancel>>
    /\ UNCHANGED <<fnVars, tblVars, drvHist>>
    /\ writesAfterFail' = IF writeFailed THEN writesAfterFail + 1 ELSE writesAfterFail
    /\ UNCHANGED <<discarded, errResults>>
    /\ buffers' = BufPut(buffers)

\* writeBytes(ctx, b.w, s.Bytes()) and the recording of its error
WorkerWrite ==
    /\ wpc = "writing"
    /\ \E openOk \in (IF once THEN {TRUE} ELSE BOOLEAN), writeOk \in BOOLEAN :
         /\ InterceptWrite(cur, openOk, writeOk)
         /\ LET err == WriteResult(wErr', writeOk) IN
              /\ errOccurs' = (err # "nil")
              /\ errCh' = IF err # "nil" THEN Append(errCh, err) ELSE errCh
              /\ writeFailed' = (writeFailed \/ err # "nil")
              /\ errsRecorded' = IF err # "nil" THEN errsRecorded + 1 ELSE errsRecorded
    /\ wpc' = "idle"
    /\ cur' = <<>>
    /\ lateWrites' = IF epc = "returned" THEN lateWrites + 1 ELSE lateWrites
    /\ UNCHANGED <<input, inputClosed, ictxDone>>
    /\ UNCHANGED <<srcVars, pCtxDone, encVars, drvVars>>
    /\ UNCHANGED <<sent, workerStarted, startedEmpty, rowsThisInv, cancelAt, rowsAfterCancel>>
    /\ UNCHANGED <<fnVars, tblVars, drvHist>>
    /\ writesAfterFail' = IF writeFailed THEN writesAfterFail + 1 ELSE writesAfterFail
    /\ UNCHANGED <<discarded, errResults>>
    /\ buffers' = BufPut(buffers)

\* case s, ok := <-b.input with the channel closed and drained: return
WorkerInputClosed ==
    /\ wpc = "idle"
    /\ input = <<>>
    /\ inputClosed
    /\ wpc' = "done"
    /\ UNCHANGED <<input, inputClosed, errCh, ictxDone, cur, errOccurs>>
    /\ UNCHANGED <<srcVars, pCtxDone, encVars, sinkVars, drvVars, histVars>>
    /\ UNCHANGED <<fnVars, pipeHist, tblVars, drvHist, sinkHist>>

\* case <-ctx.Done(): return
WorkerCtxDone ==
    /\ wpc = "idle"
    /\ ictxDone
    /\ wpc' = "done"
    /\ UNCHANGED <<input, inputClosed, errCh, ictxDone, cur, errOccurs>>
    /\ UNCHANGED <<srcVars, pCtxDone, encVars, sinkVars, drvVars, histVars>>
    /\ UNCHANGED <<fnVars, pipeHist, tblVars, drvHist, sinkHist>>

----------------------------------------------------------------------------
(* The encoders: WriteInsert and WriteInsertInCsv *)

\* a return whose deferred function does not wait for the drain worker
Return_NoWait(r) ==
    /\ ret' = r
    /\ ictxDone' = TRUE
    /\ epc' = "returned"

\* a return statement after the drain worker was started: the result is fixed
\* and the deferred function runs cancel()
Return(r) ==
    /\ ret' = r
    /\ ictxDone' = TRUE
    /\ epc' = "wgWait"

\* newWriterPipe and the start of the drain worker
StartPipe ==
    /\ input' = <<>>
    /\ inputClosed' = FALSE
    /\ errCh' = <<>>
    /\ ictxDone' = FALSE
    /\ wpc' = "idle"
    /\ cur' = <<>>
    /\ errOccurs' = FALSE
    /\ workerStarted' = TRUE

\* a slip: the terminator is chosen without asking the iterator for more rows
Terminator_IgnoresHasNext(more, sw) == IF ~sw THEN Comma ELSE Semi

\* the terminator WriteInsert appends after a row tuple
Terminator(more, sw) == IF more /\ ~sw THEN Comma ELSE Semi

\* a slip: no early return when the source has no row left
EncoderEntry_NoEarlyReturn(head, loop) ==
    /\ dpc = "encoding"
    /\ epc = "start"
    /\ StartPipe
    /\ bf' = head
    /\ wp' = [newWriterPipe EXCEPT !.currentFileSize = @ + BufLen(head)]
    /\ epc' = loop
    /\ startedEmpty' = ~HasNext
    /\ UNCHANGED <<ret, shouldSwitch, srcVars, pCtxDone, sinkVars, drvVars>>
    /\ UNCHANGED <<sent, writeFailed, rowsThisInv, cancelAt, rowsAfterCancel, lateWrites>>
    /\ UNCHANGED <<fnVars, tblVars, drvHist, sinkHist>>
    /\ UNCHANGED <<errsRecorded, writesAfterFail, discarded, errResults>>
    /\ \E got \in PoolGet(buffers) : buffers' = [got EXCEPT !.input = <<>>, !.cur = 0]

\* the entry of an encoder up to its row loop; head is what it writes first
EncoderEntry(head, loop) ==
    /\ dpc = "encoding"
    /\ epc = "start"
    /\ IF ~HasNext
         THEN /\ ret' = "nil"
              /\ epc' = "returned"
              /\ startedEmpty' = TRUE
              /\ UNCHANGED <<bf, wp, pipeVars, workerStarted, buffers>>
         ELSE /\ StartPipe
              /\ bf' = head
              /\ wp' = [newWriterPipe EXCEPT !.currentFileSize = @ + BufLen(head)]
              /\ epc' = loop
              /\ UNCHANGED <<ret, startedEmpty>>
              /\ \E got \in PoolGet(buffers) :
                   buffers' = [got EXCEPT !.input = <<>>, !.cur = 0]
    /\ UNCHANGED <<shouldSwitch, srcVars, pCtxDone, sinkVars, drvVars>>
    /\ UNCHANGED <<sent, writeFailed, rowsThisInv, cancelAt, rowsAfterCancel, lateWrites>>
    /\ UNCHANGED <<fnVars, tblVars, drvHist, sinkHist>>
    /\ UNCHANGED <<errsRecorded, writesAfterFail, discarded, errResults>>

\* a slip: the special comments are not written
WriteInsertStart_NoComments ==
    /\ cfg.fileFmt = "sql"
    /\ EncoderEntry(<<>>, "outer")

WriteInsertStart ==
    /\ cfg.fileFmt = "sql"
    /\ EncoderEntry(SpecialComments, "outer")

\* a slip: the special comments are written before the header as in WriteInsert
WriteInsertInCsvStart_WritesComments ==
    /\ cfg.fileFmt = "csv"
    /\ EncoderEntry(SpecialComments \o CsvHeader, "csvLoop")

WriteInsertInCsvStart ==
    /\ cfg.fileFmt = "csv"
    /\ EncoderEntry(CsvHeader, "csvLoop")

\* a slip: a new statement is counted but its INSERT prefix is not written
WriteInsertOuter_NoPrefix ==
    /\ epc = "outer"
    /\ IF HasNext
         THEN /\ wp' = AddFileSize([wp EXCEPT !.currentStatementSize = 0],
                                   insertStatementPrefixLen)
              /\ epc' = "inner"
              /\ UNCHANGED bf
         ELSE /\ epc' = "flush"
              /\ UNCHANGED <<bf, wp>>
    /\ UNCHANGED <<shouldSwitch, ret, srcVars, pCtxDone, pipeVars, sinkVars, drvVars, histVars>>
    /\ UNCHANGED <<fnVars, pipeHist, tblVars, drvHist, sinkHist>>

\* for fileRowIter.HasNext() { currentStatementSize = 0; prefix; AddFileSize
WriteInsertOuter ==
    /\ epc = "outer"
    /\ IF HasNext
         THEN /\ bf' = Append(bf, Prefix)
              /\ wp' = AddFileSize([wp EXCEPT !.currentStatementSize = 0],
                                   insertStatementPrefixLen)
              /\ epc' = "inner"
         ELSE /\ epc' = "flush"
              /\ UNCHANGED <<bf, wp>>
    /\ UNCHANGED <<shouldSwitch, ret, srcVars, pCtxDone, pipeVars, sinkVars, drvVars, histVars>>
    /\ UNCHANGED <<fnVars, pipeHist, tblVars, drvHist, sinkHist>>

\* one pass of WriteInsert's inner loop up to the buffer's length check
WriteInsertRow ==
    /\ epc = "inner"
    /\ UNCHANGED <<cfg, rows, iterClosed, pCtxDone>>
    /\ IF ~HasNext
         THEN /\ epc' = "afterInner"
              /\ UNCHANGED iterCalls
              /\ UNCHANGED <<bf, wp, shouldSwitch, ret, pos, iterErr, ictxDone,
                             rowsThisInv, rowsAfterCancel>>
         ELSE \E decodeOk \in BOOLEAN, nextFails \in BOOLEAN :
                IF ~decodeOk
                  THEN /\ iterCalls' = Append(iterCalls, [op |-> "Decode", pos |-> pos, hasNext |-> HasNext])
                       /\ Return("decode")
                       /\ UNCHANGED <<bf, wp, shouldSwitch, pos, iterErr,
                                      rowsThisInv, rowsAfterCancel>>
                  ELSE LET w1 == AddFileSize(wp, rows[pos + 1] + 2)
                           sw == ShouldSwitchStatement(w1)
                       IN  /\ IterNext(nextFails)
                           /\ iterCalls' = iterCalls \o <<[op |-> "Decode", pos |-> pos, hasNext |-> HasNext],
                                                         [op |-> "Next", pos |-> pos, hasNext |-> HasNext]>>
                           /\ wp' = w1
                           /\ shouldSwitch' = sw
                           /\ bf' = bf \o <<Row(pos + 1), Terminator(HasNext', sw)>>
                           /\ epc' = IF BufLen(bf') >= lengthLimit THEN "send" ELSE "poll"
                           /\ rowsThisInv' = rowsThisInv + 1
                           /\ rowsAfterCancel' = rowsAfterCancel + (IF pCtxDone THEN 1 ELSE 0)
                           /\ UNCHANGED <<ret, ictxDone>>
    /\ UNCHANGED <<input, inputClosed, errCh, wpc, cur, errOccurs>>
    /\ UNCHANGED <<sinkVars, drvVars>>
    /\ UNCHANGED <<sent, writeFailed, workerStarted, startedEmpty, cancelAt, lateWrites>>
    /\ UNCHANGED <<fnVars, pipeHist, tblVars, invocations, fileSrc, fileIdx, names, sinkHist>>

\* WriteInsertInCsv whose row loop leaves out fileRowIter.Next()
WriteInsertInCsvRow_NoNext ==
    /\ epc = "csvLoop"
    /\ IF ~HasNext
         THEN /\ epc' = "flush"
              /\ UNCHANGED iterCalls
              /\ UNCHANGED <<bf, wp, ret, pos, iterErr, ictxDone,
                             rowsThisInv, rowsAfterCancel>>
         ELSE \E decodeOk \in BOOLEAN, nextFails \in BOOLEAN :
                IF ~decodeOk
                  THEN /\ iterCalls' = Append(iterCalls, [op |-> "Decode", pos |-> pos, hasNext |-> HasNext])
                       /\ Return("decode")
                       /\ UNCHANGED <<bf, wp, pos, iterErr, rowsThisInv, rowsAfterCancel>>
                  ELSE /\ UNCHANGED <<pos, iterErr>>
                       /\ iterCalls' = Append(iterCalls, [op |-> "Decode", pos |-> pos, hasNext |-> HasNext])
                       /\ wp' = [wp EXCEPT !.currentFileSize = @ + rows[pos + 1] + 1]
                       /\ bf' = bf \o <<Row(pos + 1), Newline>>
                       /\ epc' = IF BufLen(bf') >= lengthLimit THEN "send" ELSE "poll"
                       /\ rowsThisInv' = rowsThisInv + 1
                       /\ rowsAfterCancel' = rowsAfterCancel + (IF pCtxDone THEN 1 ELSE 0)
                       /\ UNCHANGED <<ret, ictxDone>>
    /\ UNCHANGED <<shouldSwitch, cfg, rows, iterClosed, pCtxDone>>
    /\ UNCHANGED <<input, inputClosed, errCh, wpc, cur, errOccurs>>
    /\ UNCHANGED <<sinkVars, drvVars>>
    /\ UNCHANGED <<sent, writeFailed, workerStarted, startedEmpty, cancelAt, lateWrites>>
    /\ UNCHANGED <<fnVars, pipeHist, tblVars, invocations, fileSrc, fileIdx, names, sinkHist>>

\* one pass of WriteInsertInCsv's loop up to the buffer's length check; Next,
\* which the code calls after the send, touches only the iterator and is
\* taken here
WriteInsertInCsvRow ==
    /\ epc = "csvLoop"
    /\ IF ~HasNext
         THEN /\ epc' = "flush"
              /\ UNCHANGED iterCalls
              /\ UNCHANGED <<bf, wp, ret, pos, iterErr, ictxDone,
                             rowsThisInv, rowsAfterCancel>>
         ELSE \E decodeOk \in BOOLEAN, nextFails \in BOOLEAN :
                IF ~decodeOk
                  THEN /\ iterCalls' = Append(iterCalls, [op |-> "Decode", pos |-> pos, hasNext |-> HasNext])
                       /\ Return("decode")
                       /\ UNCHANGED <<bf, wp, pos, iterErr, rowsThisInv, rowsAfterCancel>>
                  ELSE /\ IterNext(nextFails)
                       /\ iterCalls' = iterCalls \o <<[op |-> "Decode", pos |-> pos, hasNext |-> HasNext],
                                                     [op |-> "Next", pos |-> pos, hasNext |-> HasNext]>>
                       /\ wp' = [wp EXCEPT !.currentFileSize = @ + rows[pos + 1] + 1]
                       /\ bf' = bf \o <<Row(pos + 1), Newline>>
                       /\ epc' = IF BufLen(bf') >= lengthLimit THEN "send" ELSE "poll"
                       /\ rowsThisInv' = rowsThisInv + 1
                       /\ rowsAfterCancel' = rowsAfterCancel + (IF pCtxDone THEN 1 ELSE 0)
                       /\ UNCHANGED <<ret, ictxDone>>
    /\ UNCHANGED <<shouldSwitch, cfg, rows, iterClosed, pCtxDone>>
    /\ UNCHANGED <<input, inputClosed, errCh, wpc, cur, errOccurs>>
    /\ UNCHANGED <<sinkVars, drvVars>>
    /\ UNCHANGED <<sent, writeFailed, workerStarted, startedEmpty, cancelAt, lateWrites>>
    /\ UNCHANGED <<fnVars, pipeHist, tblVars, invocations, fileSrc, fileIdx, names, sinkHist>>

\* a slip: the buffer sent is emptied and used again instead of a new one
EncoderSend_KeepsBuffer ==
    /\ epc = "send"
    /\ Len(input) < inputCap
    /\ input' = Append(input, bf)
    /\ sent' = sent \o bf
    /\ bf' = <<>>
    /\ epc' = "poll"
    /\ UNCHANGED <<wp, shouldSwitch, ret, srcVars, pCtxDone, sinkVars, drvVars>>
    /\ UNCHANGED <<inputClosed, errCh, ictxDone, wpc, cur, errOccurs>>
    /\ UNCHANGED <<writeFailed, workerStarted, startedEmpty, rowsThisInv,
                   cancelAt, rowsAfterCancel, lateWrites>>
    /\ UNCHANGED <<fnVars, tblVars, drvHist, sinkHist>>
    /\ UNCHANGED <<errsRecorded, writesAfterFail, discarded, errResults>>
    /\ buffers' = [buffers EXCEPT !.input = Append(@, buffers.enc)]

\* wp.input <- bf; bf = pool.Get()
EncoderSend ==
    /\ epc = "send"
    /\ Len(input) < inputCap
    /\ input' = Append(input, bf)
    /\ sent' = sent \o bf
    /\ bf' = <<>>
    /\ epc' = "poll"
    /\ UNCHANGED <<wp, shouldSwitch, ret, srcVars, pCtxDone, sinkVars, drvVars>>
    /\ UNCHANGED <<inputClosed, errCh, ictxDone, wpc, cur, errOccurs>>
    /\ UNCHANGED <<writeFailed, workerStarted, startedEmpty, rowsThisInv,
                   cancelAt, rowsAfterCancel, lateWrites>>
    /\ UNCHANGED <<fnVars, tblVars, drvHist, sinkHist>>
    /\ UNCHANGED <<errsRecorded, writesAfterFail, discarded, errResults>>
    /\ \E got \in PoolGet(BufSend(buffers)) : buffers' = got

\* where the row loop goes on after the select's default case
AfterPoll ==
    IF cfg.fileFmt = "sql"
      THEN (IF shouldSwitch THEN "afterInner" ELSE "inner")
      ELSE (IF ShouldSwitchFile(wp) THEN "flush" ELSE "csvLoop")

\* a slip: the select has no case for the caller's context
EncoderPoll_NoCtxCase ==
    /\ epc = "poll"
    /\ \/ /\ errCh # <<>>
          /\ Return(Head(errCh))
          /\ errCh' = Tail(errCh)
       \/ /\ errCh = <<>>
          /\ epc' = AfterPoll
          /\ UNCHANGED <<ret, ictxDone, errCh>>
    /\ UNCHANGED <<bf, wp, shouldSwitch, srcVars, pCtxDone, sinkVars, drvVars, histVars>>
    /\ UNCHANGED <<input, inputClosed, wpc, cur, errOccurs>>
    /\ UNCHANGED <<fnVars, pipeHist, tblVars, drvHist, sinkHist>>

\* select { case <-pCtx.Done(): ...; case err := <-wp.errCh: ...; default: }
EncoderPoll ==
    /\ epc = "poll"
    /\ \/ /\ pCtxDone
          /\ Return("ctx")
          /\ UNCHANGED errCh
       \/ /\ errCh # <<>>
          /\ Return(Head(errCh))
          /\ errCh' = Tail(errCh)
       \/ /\ ~pCtxDone
          /\ errCh = <<>>
          /\ epc' = AfterPoll
          /\ UNCHANGED <<ret, ictxDone, errCh>>
    /\ UNCHANGED <<bf, wp, shouldSwitch, srcVars, pCtxDone, sinkVars, drvVars, histVars>>
    /\ UNCHANGED <<input, inputClosed, wpc, cur, errOccurs>>
    /\ UNCHANGED <<fnVars, pipeHist, tblVars, drvHist, sinkHist>>

\* a slip: the outer loop goes on although the file-size limit is reached
WriteInsertAfterInner_IgnoresFileLimit ==
    /\ epc = "afterInner"
    /\ epc' = "outer"
    /\ UNCHANGED <<bf, wp, shouldSwitch, ret>>
    /\ UNCHANGED <<srcVars, pCtxDone, pipeVars, sinkVars, drvVars, histVars>>
    /\ UNCHANGED <<fnVars, pipeHist, tblVars, drvHist, sinkHist>>

\* if wp.ShouldSwitchFile() { break }
WriteInsertAfterInner ==
    /\ epc = "afterInner"
    /\ epc' = IF ShouldSwitchFile(wp) THEN "flush" ELSE "outer"
    /\ UNCHANGED <<bf, wp, shouldSwitch, ret>>
    /\ UNCHANGED <<srcVars, pCtxDone, pipeVars, sinkVars, drvVars, histVars>>
    /\ UNCHANGED <<fnVars, pipeHist, tblVars, drvHist, sinkHist>>

\* if bf.Len() > 0 { wp.input <- bf }; close(wp.input)
EncoderFlush ==
    /\ epc = "flush"
    /\ IF BufLen(bf) > 0
         THEN /\ Len(input) < inputCap
              /\ input' = Append(input, bf)
              /\ sent' = sent \o bf
              /\ bf' = <<>>
              /\ buffers' = BufSend(buffers)
         ELSE UNCHANGED <<input, sent, bf, buffers>>
    /\ inputClosed' = TRUE
    /\ epc' = "waitClosed"
    /\ UNCHANGED <<wp, shouldSwitch, ret, srcVars, pCtxDone, sinkVars, drvVars>>
    /\ UNCHANGED <<errCh, ictxDone, wpc, cur, errOccurs>>
    /\ UNCHANGED <<writeFailed, workerStarted, startedEmpty, rowsThisInv,
                   cancelAt, rowsAfterCancel, lateWrites>>
    /\ UNCHANGED <<fnVars, tblVars, drvHist, sinkHist>>
    /\ UNCHANGED <<errsRecorded, writesAfterFail, discarded, errResults>>

\* a slip: the encoder returns without asking the pipe for its error
EncoderWaitClosed_IgnoresPipeError ==
    /\ epc = "waitClosed"
    /\ wpc = "done"
    /\ IF iterErr THEN Return("iter") ELSE Return("nil")
    /\ UNCHANGED errCh
    /\ UNCHANGED <<bf, wp, shouldSwitch, srcVars, pCtxDone, sinkVars, drvVars, histVars>>
    /\ UNCHANGED <<input, inputClosed, wpc, cur, errOccurs>>
    /\ UNCHANGED <<fnVars, pipeHist, tblVars, drvHist, sinkHist>>

\* <-wp.closed; if err = fileRowIter.Error(); err != nil {...}; return wp.Error()
EncoderWaitClosed ==
    /\ epc = "waitClosed"
    /\ wpc = "done"
    /\ IF iterErr
         THEN Return("iter") /\ UNCHANGED errCh
         ELSE Return(Error(errCh).err) /\ errCh' = Error(errCh).errCh
    /\ UNCHANGED <<bf, wp, shouldSwitch, srcVars, pCtxDone, sinkVars, drvVars, histVars>>
    /\ UNCHANGED <<input, inputClosed, wpc, cur, errOccurs>>
    /\ UNCHANGED <<fnVars, pipeHist, tblVars, drvHist, sinkHist>>

\* a slip: the deferred function cancels the worker and does not wait for it
EncoderWgWait_NoWait ==
    /\ epc = "wgWait"
    /\ epc' = "returned"
    /\ UNCHANGED <<bf, wp, shouldSwitch, ret>>
    /\ UNCHANGED <<srcVars, pCtxDone, pipeVars, sinkVars, drvVars, histVars>>
    /\ UNCHANGED <<fnVars, pipeHist, tblVars, drvHist, sinkHist>>

\* the deferred wg.Wait()
EncoderWgWait ==
    /\ epc = "wgWait"
    /\ wpc = "done"
    /\ epc' = "returned"
    /\ UNCHANGED <<bf, wp, shouldSwitch, ret>>
    /\ UNCHANGED <<srcVars, pCtxDone, pipeVars, sinkVars, drvVars, histVars>>
    /\ UNCHANGED <<fnVars, pipeHist, tblVars, drvHist, sinkHist>>

----------------------------------------------------------------------------
(* FileWriter.writeTableData *)

\* namer := newOutputFileNamer(meta, curChkIdx); namer.NextName(...)
WriteTableDataStart ==
    /\ dpc = "start"
    /\ namerIndex' = chunkIndex + 1
    /\ dpc' = "build"
    /\ UNCHANGED <<dret, files>>
    /\ UNCHANGED <<srcVars, pCtxDone, encVars, pipeVars, sinkVars, histVars>>
    /\ invocations' = 0
    /\ names' = Append(names, [src |-> srcNo, index |-> chunkIndex])
    /\ UNCHANGED <<fnVars, pipeHist, tblVars, fileSrc, fileIdx, iterCalls, sinkHist>>

\* buildInterceptFileWriter and the call of format.WriteInsert
WriteTableDataBuild ==
    /\ dpc = "build"
    /\ NewSink
    /\ dpc' = "encoding"
    /\ epc' = "start"
    /\ bf' = <<>>
    /\ wp' = newWriterPipe
    /\ shouldSwitch' = FALSE
    /\ ret' = "none"
    /\ input' = <<>>
    /\ inputClosed' = FALSE
    /\ errCh' = <<>>
    /\ ictxDone' = FALSE
    /\ wpc' = "none"
    /\ cur' = <<>>
    /\ errOccurs' = FALSE
    /\ sent' = <<>>
    /\ writeFailed' = FALSE
    /\ workerStarted' = FALSE
    /\ startedEmpty' = FALSE
    /\ rowsThisInv' = 0
    /\ UNCHANGED <<cancelAt, rowsAfterCancel, lateWrites>>
    /\ UNCHANGED <<dret, namerIndex, files, srcVars, pCtxDone>>
    /\ invocations' = invocations + 1
    /\ UNCHANGED <<fnVars, tblVars, fileSrc, callHist>>
    /\ errsRecorded' = 0
    /\ writesAfterFail' = 0
    /\ discarded' = 0
    /\ errResults' = <<>>
    /\ UNCHANGED buffers

\* a slip: the loop ends after the first file even with a file-size limit
WriteTableDataAfter_NoRotation ==
    /\ dpc = "encoding"
    /\ epc = "returned"
    /\ TearDown
    /\ files' = IF writerSet THEN Append(files, sink) ELSE files
    /\ epc' = "idle"
    /\ IF ret # "nil"
         THEN /\ dret' = ret
              /\ dpc' = "done"
         ELSE /\ dpc' = "close"
              /\ UNCHANGED dret
    /\ UNCHANGED namerIndex
    /\ UNCHANGED <<bf, wp, shouldSwitch, ret>>
    /\ UNCHANGED <<once, wErr, writerSet, SomethingIsWritten, sink, createCalls,
                   writeCalls, offered>>
    /\ UNCHANGED <<srcVars, pCtxDone, pipeVars, histVars>>
    /\ fileSrc' = IF writerSet THEN Append(fileSrc, srcNo) ELSE fileSrc
    /\ fileIdx' = IF writerSet THEN Append(fileIdx, namerIndex - 1) ELSE fileIdx
    /\ names' = IF namerIndex' # namerIndex
                  THEN Append(names, [src |-> srcNo, index |-> namerIndex])
                  ELSE names
    /\ UNCHANGED iterCalls
    /\ UNCHANGED <<fnVars, pipeHist, tblVars, invocations, sinkHist>>

\* a slip: the loop goes on for a next file although no file-size limit is set
WriteTableDataAfter_IgnoresUnspecified ==
    /\ dpc = "encoding"
    /\ epc = "returned"
    /\ TearDown
    /\ files' = IF writerSet THEN Append(files, sink) ELSE files
    /\ epc' = "idle"
    /\ IF ret # "nil"
         THEN /\ dret' = ret
              /\ dpc' = "done"
              /\ UNCHANGED namerIndex
         ELSE IF ~SomethingIsWritten
                THEN /\ dpc' = "close"
                     /\ UNCHANGED <<dret, namerIndex>>
                ELSE /\ namerIndex' = namerIndex + 1
                     /\ dpc' = "build"
                     /\ UNCHANGED dret
    /\ UNCHANGED <<bf, wp, shouldSwitch, ret>>
    /\ UNCHANGED <<once, wErr, writerSet, SomethingIsWritten, sink, createCalls,
                   writeCalls, offered>>
    /\ UNCHANGED <<srcVars, pCtxDone, pipeVars, histVars>>
    /\ fileSrc' = IF writerSet THEN Append(fileSrc, srcNo) ELSE fileSrc
    /\ fileIdx' = IF writerSet THEN Append(fileIdx, namerIndex - 1) ELSE fileIdx
    /\ names' = IF namerIndex' # namerIndex
                  THEN Append(names, [src |-> srcNo, index |-> namerIndex])
                  ELSE names
    /\ UNCHANGED iterCalls
    /\ UNCHANGED <<fnVars, pipeHist, tblVars, invocations, sinkHist>>

\* writeTableData without the break on !w.SomethingIsWritten
WriteTableDataAfter_IgnoresNothingWritten ==
    /\ dpc = "encoding"
    /\ epc = "returned"
    /\ TearDown
    /\ files' = IF writerSet THEN Append(files, sink) ELSE files
    /\ epc' = "idle"
    /\ IF ret # "nil"
         THEN /\ dret' = ret
              /\ dpc' = "done"
              /\ UNCHANGED namerIndex
         ELSE IF cfg.FileSize = UnspecifiedSize
                THEN /\ dpc' = "close"
                     /\ UNCHANGED <<dret, namerIndex>>
                ELSE /\ namerIndex' = namerIndex + 1
                     /\ dpc' = "build"
                     /\ UNCHANGED dret
    /\ UNCHANGED <<bf, wp, shouldSwitch, ret>>
    /\ UNCHANGED <<once, wErr, writerSet, SomethingIsWritten, sink, createCalls,
                   writeCalls, offered>>
    /\ UNCHANGED <<srcVars, pCtxDone, pipeVars, histVars>>
    /\ fileSrc' = IF writerSet THEN Append(fileSrc, srcNo) ELSE fileSrc
    /\ fileIdx' = IF writerSet THEN Append(fileIdx, namerIndex - 1) ELSE fileIdx
    /\ names' = IF namerIndex' # namerIndex
                  THEN Append(names, [src |-> srcNo, index |-> namerIndex])
                  ELSE names
    /\ UNCHANGED iterCalls
    /\ UNCHANGED <<fnVars, pipeHist, tblVars, invocations, sinkHist>>

\* tearDown(ctx) and the rest of the loop body once the encoder has returned
WriteTableDataAfter ==
    /\ dpc = "encoding"
    /\ epc = "returned"
    /\ TearDown
    /\ files' = IF writerSet THEN Append(files, sink) ELSE files
    /\ epc' = "idle"
    /\ IF ret # "nil"
         THEN /\ dret' = ret
              /\ dpc' = "done"
              /\ UNCHANGED namerIndex
         ELSE IF ~SomethingIsWritten \/ cfg.FileSize = UnspecifiedSize
                THEN /\ dpc' = "close"
                     /\ UNCHANGED <<dret, namerIndex>>
                ELSE /\ namerIndex' = namerIndex + 1
                     /\ dpc' = "build"
                     /\ UNCHANGED dret
    /\ UNCHANGED <<bf, wp, shouldSwitch, ret>>
    /\ UNCHANGED <<once, wErr, writerSet, SomethingIsWritten, sink, createCalls,
                   writeCalls, offered>>
    /\ UNCHANGED <<srcVars, pCtxDone, pipeVars, histVars>>
    /\ fileSrc' = IF writerSet THEN Append(fileSrc, srcNo) ELSE fileSrc
    /\ fileIdx' = IF writerSet THEN Append(fileIdx, namerIndex - 1) ELSE fileIdx
    /\ names' = IF namerIndex' # namerIndex
                  THEN Append(names, [src |-> srcNo, index |-> namerIndex])
                  ELSE names
    /\ UNCHANGED iterCalls
    /\ UNCHANGED <<fnVars, pipeHist, tblVars, invocations, sinkHist>>

\* return ir.Rows().Close()
WriteTableDataClose ==
    /\ dpc = "close"
    /\ iterClosed' = TRUE
    /\ dret' = "nil"
    /\ dpc' = "done"
    /\ UNCHANGED <<namerIndex, files>>
    /\ UNCHANGED <<cfg, rows, pos, iterErr>>
    /\ UNCHANGED <<pCtxDone, encVars, pipeVars, sinkVars, histVars>>
    /\ UNCHANGED <<fnVars, pipeHist, tblVars, drvHist, sinkHist>>

----------------------------------------------------------------------------
(* The caller's context *)

\* a row is being processed: its tuple is in the buffer, its poll is ahead
RowInProgress == epc \in {"send", "poll"}

\* the encoder is past its last poll and about to decode a row
RowAhead ==
    \/ epc \in {"outer", "inner", "csvLoop"} /\ HasNext
    \/ epc = "afterInner" /\ ~ShouldSwitchFile(wp) /\ HasNext

CancelContext ==
    /\ ~pCtxDone
    /\ IF tpc = "none" THEN dpc # "done" ELSE tpc # "returned"
    /\ pCtxDone' = TRUE
    /\ cancelAt' = IF RowInProgress THEN "row" ELSE IF RowAhead THEN "ahead" ELSE "other"
    /\ UNCHANGED <<srcVars, encVars, pipeVars, sinkVars, drvVars>>
    /\ UNCHANGED <<sent, writeFailed, workerStarted, startedEmpty, rowsThisInv,
                   rowsAfterCancel, lateWrites>>
    /\ UNCHANGED <<fnVars, pipeHist, tblVars, drvHist, sinkHist>>

----------------------------------------------------------------------------
(* The dump of one Table Data Source *)

Init ==
    /\ cfg \in Configs
    /\ rows \in RowSeqs
    /\ pos = 0
    /\ iterErr \in BOOLEAN
    /\ iterClosed = FALSE
    /\ pCtxDone = FALSE
    /\ epc = "idle"
    /\ bf = <<>>
    /\ wp = newWriterPipe
    /\ shouldSwitch = FALSE
    /\ ret = "none"
    /\ input = <<>>
    /\ inputClosed = FALSE
    /\ errCh = <<>>
    /\ ictxDone = FALSE
    /\ wpc = "none"
    /\ cur = <<>>
    /\ errOccurs = FALSE
    /\ once = FALSE
    /\ wErr = FALSE
    /\ writerSet = FALSE
    /\ SomethingIsWritten = FALSE
    /\ sink = <<>>
    /\ createCalls = 0
    /\ closeCalls = 0
    /\ writeCalls = 0
    /\ offered = 0
    /\ dpc = "start"
    /\ dret = "none"
    /\ namerIndex = 0
    /\ files = <<>>
    /\ sent = <<>>
    /\ writeFailed = FALSE
    /\ workerStarted = FALSE
    /\ startedEmpty = FALSE
    /\ rowsThisInv = 0
    /\ cancelAt = "none"
    /\ rowsAfterCancel = 0
    /\ lateWrites = 0
    /\ tpc = "none"
    /\ irStream = <<>>
    /\ channelClosed = FALSE
    /\ chunkIndex = 0
    /\ held = 0
    /\ pool = PoolSize
    /\ tret = "none"
    /\ texit = "none"
    /\ srcNo = 1
    /\ invocations = 0
    /\ fileSrc = <<>>
    /\ fileIdx = <<>>
    /\ names = <<>>
    /\ iterCalls = <<>>
    /\ underWrites = 0
    /\ lastRes = "none"
    /\ panicked = FALSE
    /\ errsRecorded = 0
    /\ writesAfterFail = 0
    /\ discarded = 0
    /\ errResults = <<>>
    /\ buffers = NoBuffers
    /\ fin = <<>>
    /\ fout = <<>>
    /\ fpc = "none"

Next ==
    \/ WriteTableDataStart
    \/ WriteTableDataBuild
    \/ WriteTableDataAfter
    \/ WriteTableDataClose
    \/ WriteInsertStart
    \/ WriteInsertInCsvStart
    \/ WriteInsertOuter
    \/ WriteInsertRow
    \/ WriteInsertInCsvRow
    \/ EncoderSend
    \/ EncoderPoll
    \/ WriteInsertAfterInner
    \/ EncoderFlush
    \/ EncoderWaitClosed
    \/ EncoderWgWait
    \/ WorkerRecv
    \/ WorkerWrite
    \/ WorkerInputClosed
    \/ WorkerCtxDone
    \/ CancelContext

Spec == Init /\ [][Next]_vars

----------------------------------------------------------------------------
(* FileWriter.WriteTableData: the Table Data Sources of one table *)

\* the sources a producer sends: some small rows, or one large row
Sources ==
    {[i \in 1..n |-> SmallRowLen] : n \in 0..MaxSourceRows} \cup {<<BigRowLen>>}

Streams == UNION {[1..k -> Sources] : k \in 0..MaxSources}

TableConfigs ==
    {c \in Configs : /\ c.FileSize \in {UnspecifiedSize, SmallFileSize}
                     /\ c.fileFmt = "sql" => (c.StatementSize = UnspecifiedSize /\ c.specCmts = 1)
                     /\ c.fileFmt = "csv" => c.NoHeader}

\* one pass of the loop up to the call of writeTableData: the select on
\* ctx.Done() and irStream, then getConn and ir.Start
WriteTableDataSelect ==
    /\ tpc = "select"
    /\ \/ /\ pCtxDone
          /\ tret' = "nil"
          /\ texit' = "ctx"
          /\ tpc' = "returned"
          /\ UNCHANGED <<irStream, channelClosed, held, pool, srcNo, dpc, dret, srcVars, iterCalls>>
       \/ /\ irStream # <<>>
          /\ pool > 0
          /\ irStream' = Tail(irStream)
          /\ srcNo' = srcNo + 1
          /\ pool' = pool - 1
          /\ held' = held + 1
          /\ iterCalls' = <<>>
          /\ \E startOk \in BOOLEAN, firstFails \in BOOLEAN :
               IF ~startOk
                 THEN /\ tret' = "start"
                      /\ texit' = "start"
                      /\ tpc' = "returned"
                      /\ UNCHANGED <<dpc, dret, srcVars>>
                 ELSE /\ rows' = Head(irStream)
                      /\ pos' = 0
                      /\ iterErr' = firstFails
                      /\ iterClosed' = FALSE
                      /\ dpc' = "start"
                      /\ dret' = "none"
                      /\ tpc' = "writing"
                      /\ UNCHANGED <<cfg, tret, texit>>
          /\ UNCHANGED channelClosed
       \/ /\ irStream = <<>>
          /\ channelClosed' = TRUE
          /\ tret' = "nil"
          /\ texit' = "closed"
          /\ tpc' = "returned"
          /\ UNCHANGED <<irStream, held, pool, srcNo, dpc, dret, srcVars, iterCalls>>
    /\ UNCHANGED <<chunkIndex, namerIndex, files>>
    /\ UNCHANGED <<pCtxDone, encVars, pipeVars, sinkVars, histVars, invocations, fileSrc, fileIdx, names, sinkHist>>
    /\ UNCHANGED <<fnVars, pipeHist>>

\* a slip: the connection is not given back after a source was written
WriteTableDataRelease_KeepsConn ==
    /\ tpc = "writing"
    /\ dpc = "done"
    /\ dpc' = "idle"
    /\ IF dret # "nil"
         THEN /\ tret' = dret
              /\ texit' = "encoder"
              /\ tpc' = "returned"
              /\ UNCHANGED chunkIndex
         ELSE /\ chunkIndex' = chunkIndex + 1
              /\ tpc' = "select"
              /\ UNCHANGED <<tret, texit>>
    /\ UNCHANGED <<pool, held>>
    /\ UNCHANGED <<irStream, channelClosed, srcNo, dret, namerIndex, files>>
    /\ UNCHANGED <<srcVars, pCtxDone, encVars, pipeVars, sinkVars, histVars, drvHist, sinkHist>>
    /\ UNCHANGED <<fnVars, pipeHist>>

\* the rest of the loop body once writeTableData has returned
WriteTableDataRelease ==
    /\ tpc = "writing"
    /\ dpc = "done"
    /\ dpc' = "idle"
    /\ pool' = pool + 1
    /\ held' = held - 1
    /\ IF dret # "nil"
         THEN /\ tret' = dret
              /\ texit' = "encoder"
              /\ tpc' = "returned"
              /\ UNCHANGED chunkIndex
         ELSE /\ chunkIndex' = chunkIndex + 1
              /\ tpc' = "select"
              /\ UNCHANGED <<tret, texit>>
    /\ UNCHANGED <<irStream, channelClosed, srcNo, dret, namerIndex, files>>
    /\ UNCHANGED <<srcVars, pCtxDone, encVars, pipeVars, sinkVars, histVars, drvHist, sinkHist>>
    /\ UNCHANGED <<fnVars, pipeHist>>

InitTable ==
    /\ cfg \in TableConfigs
    /\ rows = <<>>
    /\ pos = 0
    /\ iterErr = FALSE
    /\ iterClosed = FALSE
    /\ pCtxDone = FALSE
    /\ epc = "idle"
    /\ bf = <<>>
    /\ wp = newWriterPipe
    /\ shouldSwitch = FALSE
    /\ ret = "none"
    /\ input = <<>>
    /\ inputClosed = FALSE
    /\ errCh = <<>>
    /\ ictxDone = FALSE
    /\ wpc = "none"
    /\ cur = <<>>
    /\ errOccurs = FALSE
    /\ once = FALSE
    /\ wErr = FALSE
    /\ writerSet = FALSE
    /\ SomethingIsWritten = FALSE
    /\ sink = <<>>
    /\ createCalls = 0
    /\ closeCalls = 0
    /\ writeCalls = 0
    /\ offered = 0
    /\ dpc = "idle"
    /\ dret = "none"
    /\ namerIndex = 0
    /\ files = <<>>
    /\ sent = <<>>
    /\ writeFailed = FALSE
    /\ workerStarted = FALSE
    /\ startedEmpty = FALSE
    /\ rowsThisInv = 0
    /\ cancelAt = "none"
    /\ rowsAfterCancel = 0
    /\ lateWrites = 0
    /\ tpc = "select"
    /\ irStream \in Streams
    /\ channelClosed = FALSE
    /\ chunkIndex = 0
    /\ held = 0
    /\ pool = PoolSize
    /\ tret = "none"
    /\ texit = "none"
    /\ srcNo = 0
    /\ invocations = 0
    /\ fileSrc = <<>>
    /\ fileIdx = <<>>
    /\ names = <<>>
    /\ iterCalls = <<>>
    /\ underWrites = 0
    /\ lastRes = "none"
    /\ panicked = FALSE
    /\ errsRecorded = 0
    /\ writesAfterFail = 0
    /\ discarded = 0
    /\ errResults = <<>>
    /\ buffers = NoBuffers
    /\ fin = <<>>
    /\ fout = <<>>
    /\ fpc = "none"

NextTable ==
    \/ WriteTableDataSelect
    \/ WriteTableDataRelease
    \/ Next

SpecTable == InitTable /\ [][NextTable]_vars

----------------------------------------------------------------------------
(* Text: identifiers, the INSERT prefix and the CSV header line.  A string  *)
(* is a sequence of pieces; a piece is one character or a literal run.      *)

\* the backtick character
Backtick == "BACKTICK"

NameChars == {"a", Backtick}
Names == UNION {[1..n -> NameChars] : n \in 1..MaxNameLen}

\* strings.ReplaceAll(s, backtick, two backticks)
RECURSIVE escapeString(_)
escapeString(s) ==
    IF s = <<>> THEN <<>>
    ELSE (IF Head(s) = Backtick THEN <<Backtick, Backtick>> ELSE <<Head(s)>>) \o escapeString(Tail(s))

HasPrefix(s, c) == s # <<>> /\ s[1] = c
HasSuffix(s, c) == s # <<>> /\ s[Len(s)] = c

wrapStringWith(str, wrapper) == <<wrapper>> \o str \o <<wrapper>>

wrapBackTicks(identifier) ==
    IF ~HasPrefix(identifier, Backtick) /\ ~HasSuffix(identifier, Backtick)
      THEN wrapStringWith(identifier, Backtick)
      ELSE identifier

\* strings.Join(elems, sep)
RECURSIVE Join(_, _)
Join(elems, sep) ==
    IF elems = <<>> THEN <<>>
    ELSE IF Len(elems) = 1 THEN elems[1]
    ELSE elems[1] \o <<sep>> \o Join(Tail(elems), sep)

\* the columns INFORMATION_SCHEMA.COLUMNS reports: a name and its EXTRA
Fields == [name : {<<"a">>, <<"b", Backtick>>}, extra : {"", "STORED GENERATED"}]
FieldLists == UNION {[1..n -> Fields] : n \in 0..MaxFields}

\* buildSelectField: the quoted names of the columns that are not generated,
\* joined by ",", or "*" when no column list is needed
buildSelectField(fields, completeInsert) ==
    LET kept == SelectSeq(fields, LAMBDA f : f.extra # "STORED GENERATED")
        availableFields == [i \in 1..Len(kept) |-> wrapBackTicks(escapeString(kept[i].name))]
        hasGenerateColumn == Len(kept) # Len(fields)
    IN  IF completeInsert \/ hasGenerateColumn
          THEN Join(availableFields, ",")
          ELSE <<"*">>

\* TableMeta.SelectedField: what stands between the table name and VALUES,
\* the column list in parentheses, or nothing when all columns are selected
SelectedField(selectedField) ==
    IF selectedField = <<"*">> \/ selectedField = <<>>
      THEN <<>>
      ELSE <<"(">> \o selectedField \o <<")">>

\* a slip: the selected field is left out of the prefix
insertStatementPrefix_DropsFields(tableName, selectedField) ==
    <<"INSERT INTO ">> \o wrapBackTicks(escapeString(tableName)) \o <<" VALUES\n">>

\* the INSERT prefix WriteInsert builds
insertStatementPrefix(tableName, selectedField) ==
    IF selectedField # <<>>
      THEN <<"INSERT INTO ">> \o wrapBackTicks(escapeString(tableName))
           \o <<" ">> \o selectedField \o <<" VALUES\n">>
      ELSE <<"INSERT INTO ">> \o wrapBackTicks(escapeString(tableName))
           \o <<" VALUES\n">>

\* escape(col, bf, getEscapeQuotation(...)): the column name with the
\* delimiter escaped inside it
escape(col) == [escaped |-> col]

ColNames == {"id", "c"}
ColNameLists == UNION {[1..n -> ColNames] : n \in 0..MaxCols}

\* the header line WriteInsertInCsv writes; nTypes is len(meta.ColumnTypes())
RECURSIVE headerCols(_, _, _)
headerCols(colNames, i, nTypes) ==
    IF i >= Len(colNames) THEN <<>>
    ELSE <<"delimiter", escape(colNames[i + 1]), "delimiter">>
         \o (IF i # nTypes - 1 THEN <<"separator">> ELSE <<>>)
         \o headerCols(colNames, i + 1, nTypes)

csvHeaderLine(noHeader, colNames, nTypes) ==
    IF ~noHeader /\ Len(colNames) # 0
      THEN headerCols(colNames, 0, nTypes) \o <<"\n">>
      ELSE <<>>

\* WriteMeta from its i-th write on: one write for each special comment with
\* its '\n', then one for the meta SQL; the failAt-th write fails (0: none)
RECURSIVE WriteMetaFrom_IgnoresCommentErrors(_, _, _, _, _)
\* a slip: the error of a special comment's write is dropped
WriteMetaFrom_IgnoresCommentErrors(cmts, body, i, out, failAt) ==
    IF i <= Len(cmts)
      THEN WriteMetaFrom_IgnoresCommentErrors(cmts, body, i + 1,
               IF failAt = i THEN out ELSE out \o <<cmts[i], "\n">>, failAt)
      ELSE IF failAt = i
             THEN [out |-> out, writes |-> i, ret |-> "write"]
             ELSE [out |-> out \o <<body>>, writes |-> i, ret |-> "nil"]

RECURSIVE WriteMetaFrom(_, _, _, _, _)
WriteMetaFrom(cmts, body, i, out, failAt) ==
    IF failAt = i
      THEN [out |-> out, writes |-> i, ret |-> "write"]
      ELSE IF i <= Len(cmts)
             THEN WriteMetaFrom(cmts, body, i + 1, out \o <<cmts[i], "\n">>, failAt)
             ELSE [out |-> out \o <<body>>, writes |-> i, ret |-> "nil"]

WriteMeta(cmts, body, failAt) == WriteMetaFrom(cmts, body, 1, <<>>, failAt)

CmtLists == UNION {[1..n -> {"cmt1", "cmt2"}] : n \in 0..MaxCmts}

\* the four functions ResolveConfig hands to resolve
initLogger(conf) ==
    IF conf.Logger \/ conf.logInitOk THEN "nil" ELSE "logger"

registerTLSConfig(conf) ==
    IF conf.CAPath /\ ~conf.tlsOk THEN "tls" ELSE "nil"

validateFileSize(conf) ==
    IF conf.Rows # UnspecifiedSize /\ conf.FileSize # UnspecifiedSize
      THEN "filesize" ELSE "nil"

validateSpecifiedSQL(conf) ==
    IF conf.Sql # "" /\ conf.Where # "" THEN "sqlwhere" ELSE "nil"

Validators == <<"initLogger", "registerTLSConfig", "validateFileSize", "validateSpecifiedSQL">>

CallValidator(f, conf) ==
    CASE f = "initLogger" -> initLogger(conf)
      [] f = "registerTLSConfig" -> registerTLSConfig(conf)
      [] f = "validateFileSize" -> validateFileSize(conf)
      [] f = "validateSpecifiedSQL" -> validateSpecifiedSQL(conf)

RECURSIVE resolve_ReturnsLastError(_, _, _)
\* a slip: every function is run and the last error is returned
resolve_ReturnsLastError(conf, fns, ran) ==
    IF fns = <<>> THEN [ret |-> "nil", ran |-> ran]
    ELSE LET err == CallValidator(Head(fns), conf)
             rest == resolve_ReturnsLastError(conf, Tail(fns), Append(ran, Head(fns)))
         IN  IF rest.ret # "nil" THEN rest ELSE [ret |-> err, ran |-> rest.ran]

\* resolve: ran is the functions called so far
RECURSIVE resolve(_, _, _)
resolve(conf, fns, ran) ==
    IF fns = <<>> THEN [ret |-> "nil", ran |-> ran]
    ELSE LET err == CallValidator(Head(fns), conf) IN
         IF err # "nil"
           THEN [ret |-> err, ran |-> Append(ran, Head(fns))]
           ELSE resolve(conf, Tail(fns), Append(ran, Head(fns)))

ResolveConfig(conf) == resolve(conf, Validators, <<>>)

Confs ==
    [Logger : BOOLEAN, logInitOk : BOOLEAN, CAPath : BOOLEAN, tlsOk : BOOLEAN,
     Rows : {UnspecifiedSize, TinySize}, FileSize : {UnspecifiedSize, TinySize},
     Sql : {"", "select"}, Where : {"", "where"}]

\* the calls made: a function and its arguments
TextInputs ==
    [fn : {"insertStatementPrefix"}, tableName : Names, fields : FieldLists,
     completeInsert : BOOLEAN]
    \cup [fn : {"csvHeaderLine"}, noHeader : BOOLEAN, colNames : ColNameLists,
          nTypes : 0..MaxCols]
    \cup [fn : {"WriteMeta"}, cmts : CmtLists, body : {"metaSQL"}]
    \cup [fn : {"ResolveConfig"}, conf : Confs]

CallInsertStatementPrefix ==
    /\ fpc = "call"
    /\ fin.fn = "insertStatementPrefix"
    /\ fout' = insertStatementPrefix(fin.tableName,
                    SelectedField(buildSelectField(fin.fields, fin.completeInsert)))
    /\ fpc' = "done"
    /\ UNCHANGED fin
    /\ UNCHANGED <<srcVars, pCtxDone, encVars, pipeVars, sinkVars, drvVars, histVars>>
    /\ UNCHANGED <<pipeHist, tblVars, drvHist, sinkHist>>

CallCsvHeaderLine ==
    /\ fpc = "call"
    /\ fin.fn = "csvHeaderLine"
    /\ fout' = csvHeaderLine(fin.noHeader, fin.colNames, fin.nTypes)
    /\ fpc' = "done"
    /\ UNCHANGED fin
    /\ UNCHANGED <<srcVars, pCtxDone, encVars, pipeVars, sinkVars, drvVars, histVars>>
    /\ UNCHANGED <<pipeHist, tblVars, drvHist, sinkHist>>

\* WriteMeta on a writer whose failAt-th Write fails
CallWriteMeta ==
    /\ fpc = "call"
    /\ fin.fn = "WriteMeta"
    /\ \E failAt \in 0..(Len(fin.cmts) + 1) :
         fout' = [res |-> WriteMeta(fin.cmts, fin.body, failAt), failAt |-> failAt]
    /\ fpc' = "done"
    /\ UNCHANGED fin
    /\ UNCHANGED <<srcVars, pCtxDone, encVars, pipeVars, sinkVars, drvVars, histVars>>
    /\ UNCHANGED <<pipeHist, tblVars, drvHist, sinkHist>>

CallResolveConfig ==
    /\ fpc = "call"
    /\ fin.fn = "ResolveConfig"
    /\ fout' = ResolveConfig(fin.conf)
    /\ fpc' = "done"
    /\ UNCHANGED fin
    /\ UNCHANGED <<srcVars, pCtxDone, encVars, pipeVars, sinkVars, drvVars, histVars>>
    /\ UNCHANGED <<pipeHist, tblVars, drvHist, sinkHist>>

\* the values of a pipeline that is not running
Quiescent ==
    /\ pos = 0
    /\ iterErr = FALSE
    /\ iterClosed = FALSE
    /\ pCtxDone = FALSE
    /\ epc = "idle"
    /\ bf = <<>>
    /\ wp = newWriterPipe
    /\ shouldSwitch = FALSE
    /\ ret = "none"
    /\ input = <<>>
    /\ inputClosed = FALSE
    /\ errCh = <<>>
    /\ ictxDone = FALSE
    /\ cur = <<>>
    /\ errOccurs = FALSE
    /\ once = FALSE
    /\ wErr = FALSE
    /\ writerSet = FALSE
    /\ SomethingIsWritten = FALSE
    /\ sink = <<>>
    /\ createCalls = 0
    /\ closeCalls = 0
    /\ writeCalls = 0
    /\ offered = 0
    /\ dret = "none"
    /\ namerIndex = 0
    /\ files = <<>>
    /\ sent = <<>>
    /\ writeFailed = FALSE
    /\ workerStarted = FALSE
    /\ startedEmpty = FALSE
    /\ rowsThisInv = 0
    /\ cancelAt = "none"
    /\ rowsAfterCancel = 0
    /\ lateWrites = 0
    /\ tpc = "none"
    /\ irStream = <<>>
    /\ channelClosed = FALSE
    /\ chunkIndex = 0
    /\ held = 0
    /\ pool = PoolSize
    /\ tret = "none"
    /\ texit = "none"
    /\ srcNo = 1
    /\ invocations = 0
    /\ fileSrc = <<>>
    /\ fileIdx = <<>>
    /\ names = <<>>
    /\ iterCalls = <<>>
    /\ underWrites = 0
    /\ lastRes = "none"
    /\ panicked = FALSE
    /\ errsRecorded = 0
    /\ writesAfterFail = 0
    /\ discarded = 0
    /\ errResults = <<>>

InitText ==
    /\ Quiescent
    /\ buffers = NoBuffers
    /\ cfg \in {c \in Configs : c.fileFmt = "csv" /\ c.NoHeader /\ c.FileSize = UnspecifiedSize}
    /\ rows = <<>>
    /\ dpc = "text"
    /\ wpc = "none"
    /\ fin \in TextInputs
    /\ fout = <<>>
    /\ fpc = "call"

NextText ==
    \/ CallInsertStatementPrefix
    \/ CallCsvHeaderLine
    \/ CallWriteMeta
    \/ CallResolveConfig

SpecText == InitText /\ [][NextText]_vars

----------------------------------------------------------------------------
(* An Intercepting File Sink on its own, written to by an arbitrary caller *)

Payloads == {<<>>, <<Newline>>, <<Comma>>, <<Semi, Newline>>}

\* a call of InterceptFileWriter.Write with any payload, the empty one included
SinkWrite ==
    /\ dpc = "sink"
    /\ ~panicked
    /\ writeCalls < MaxSinkWrites
    /\ closeCalls = 0
    /\ \E p \in Payloads, openOk \in (IF once THEN {TRUE} ELSE BOOLEAN), writeOk \in BOOLEAN :
         InterceptWrite(p, openOk, writeOk)
    /\ UNCHANGED <<srcVars, pCtxDone, encVars, pipeVars, drvVars, histVars>>
    /\ UNCHANGED <<fnVars, pipeHist, tblVars, drvHist>>

\* a call of the tearDownRoutine (it returns at once while writer is nil)
SinkTearDown ==
    /\ dpc = "sink"
    /\ ~panicked
    /\ closeCalls = 0
    /\ TearDown
    /\ UNCHANGED <<once, wErr, writerSet, SomethingIsWritten, sink, createCalls,
                   writeCalls, offered>>
    /\ UNCHANGED <<srcVars, pCtxDone, encVars, pipeVars, drvVars, histVars>>
    /\ UNCHANGED <<fnVars, pipeHist, tblVars, drvHist, sinkHist>>

\* a call of InterceptFileWriter.Close: w.Writer.Close(ctx) on the embedded
\* storage.Writer, which is nil until initRoutine has opened the upload
SinkClose ==
    /\ dpc = "sink"
    /\ ~panicked
    /\ closeCalls = 0
    /\ IF writerSet
         THEN /\ closeCalls' = closeCalls + 1
              /\ UNCHANGED panicked
         ELSE /\ panicked' = TRUE
              /\ UNCHANGED closeCalls
    /\ UNCHANGED <<once, wErr, writerSet, SomethingIsWritten, sink, createCalls,
                   writeCalls, offered, underWrites, lastRes>>
    /\ UNCHANGED <<srcVars, pCtxDone, encVars, pipeVars, drvVars, histVars>>
    /\ UNCHANGED <<fnVars, pipeHist, tblVars, drvHist>>

InitSink ==
    /\ cfg \in Configs
    /\ rows = <<>>
    /\ pos = 0
    /\ iterErr = FALSE
    /\ iterClosed = FALSE
    /\ pCtxDone = FALSE
    /\ epc = "idle"
    /\ bf = <<>>
    /\ wp = newWriterPipe
    /\ shouldSwitch = FALSE
    /\ ret = "none"
    /\ input = <<>>
    /\ inputClosed = FALSE
    /\ errCh = <<>>
    /\ ictxDone = FALSE
    /\ wpc = "none"
    /\ cur = <<>>
    /\ errOccurs = FALSE
    /\ once = FALSE
    /\ wErr = FALSE
    /\ writerSet = FALSE
    /\ SomethingIsWritten = FALSE
    /\ sink = <<>>
    /\ createCalls = 0
    /\ closeCalls = 0
    /\ writeCalls = 0
    /\ offered = 0
    /\ dpc = "sink"
    /\ dret = "none"
    /\ namerIndex = 0
    /\ files = <<>>
    /\ sent = <<>>
    /\ writeFailed = FALSE
    /\ workerStarted = FALSE
    /\ startedEmpty = FALSE
    /\ rowsThisInv = 0
    /\ cancelAt = "none"
    /\ rowsAfterCancel = 0
    /\ lateWrites = 0
    /\ tpc = "none"
    /\ irStream = <<>>
    /\ channelClosed = FALSE
    /\ chunkIndex = 0
    /\ held = 0
    /\ pool = PoolSize
    /\ tret = "none"
    /\ texit = "none"
    /\ srcNo = 1
    /\ invocations = 0
    /\ fileSrc = <<>>
    /\ fileIdx = <<>>
    /\ names = <<>>
    /\ iterCalls = <<>>
    /\ underWrites = 0
    /\ lastRes = "none"
    /\ panicked = FALSE
    /\ errsRecorded = 0
    /\ writesAfterFail = 0
    /\ discarded = 0
    /\ errResults = <<>>
    /\ buffers = NoBuffers
    /\ fin = <<>>
    /\ fout = <<>>
    /\ fpc = "none"

NextSink ==
    \/ SinkWrite
    \/ SinkTearDown
    \/ SinkClose

SpecSink == InitSink /\ [][NextSink]_vars

----------------------------------------------------------------------------
(* A writerPipe on its own: Run as the drain worker, and a caller that     *)
(* sends buffers, closes the input, cancels the context and calls Error()  *)

PipePayloads == {<<Newline>>, <<Comma>>}

\* wp.input <- bf
PipeSend ==
    /\ dpc = "pipe"
    /\ ~inputClosed
    /\ Len(input) < inputCap
    /\ Len(sent) < MaxPipeSends
    /\ \E p \in PipePayloads :
         /\ input' = Append(input, p)
         /\ sent' = sent \o p
    /\ buffers' = [buffers EXCEPT !.input = Append(@, buffers.made + 1),
                                   !.made = @ + 1]
    /\ UNCHANGED <<inputClosed, errCh, ictxDone, wpc, cur, errOccurs>>
    /\ UNCHANGED <<srcVars, pCtxDone, encVars, sinkVars, drvVars>>
    /\ UNCHANGED <<writeFailed, workerStarted, startedEmpty, rowsThisInv,
                   cancelAt, rowsAfterCancel, lateWrites>>
    /\ UNCHANGED <<fnVars, tblVars, drvHist, sinkHist>>
    /\ UNCHANGED <<errsRecorded, writesAfterFail, discarded, errResults>>

\* close(wp.input)
PipeClose ==
    /\ dpc = "pipe"
    /\ ~inputClosed
    /\ inputClosed' = TRUE
    /\ UNCHANGED <<input, errCh, ictxDone, wpc, cur, errOccurs>>
    /\ UNCHANGED <<srcVars, pCtxDone, encVars, sinkVars, drvVars, histVars>>
    /\ UNCHANGED <<fnVars, pipeHist, tblVars, drvHist, sinkHist>>

\* cancel() of the context Run was given
PipeCancel ==
    /\ dpc = "pipe"
    /\ ~ictxDone
    /\ ictxDone' = TRUE
    /\ UNCHANGED <<input, inputClosed, errCh, wpc, cur, errOccurs>>
    /\ UNCHANGED <<srcVars, pCtxDone, encVars, sinkVars, drvVars, histVars>>
    /\ UNCHANGED <<fnVars, pipeHist, tblVars, drvHist, sinkHist>>

\* a call of wp.Error()
PipeError ==
    /\ dpc = "pipe"
    /\ Len(errResults) < MaxErrorCalls
    /\ errResults' = Append(errResults, Error(errCh).err)
    /\ errCh' = Error(errCh).errCh
    /\ UNCHANGED <<input, inputClosed, ictxDone, wpc, cur, errOccurs>>
    /\ UNCHANGED <<srcVars, pCtxDone, encVars, sinkVars, drvVars, histVars>>
    /\ UNCHANGED <<fnVars, tblVars, drvHist, sinkHist>>
    /\ UNCHANGED <<errsRecorded, writesAfterFail, discarded, buffers>>

\* wp := newWriterPipe(w, ...); go wp.Run(ctx)
InitPipe ==
    /\ Quiescent
    /\ buffers = NoBuffers
    /\ cfg \in {c \in Configs : c.fileFmt = "csv" /\ c.NoHeader /\ c.FileSize = UnspecifiedSize}
    /\ rows = <<>>
    /\ dpc = "pipe"
    /\ wpc = "idle"
    /\ fin = <<>>
    /\ fout = <<>>
    /\ fpc = "none"

NextPipe ==
    \/ PipeSend
    \/ PipeClose
    \/ PipeCancel
    \/ PipeError
    \/ WorkerRecv
    \/ WorkerWrite
    \/ WorkerInputClosed
    \/ WorkerCtxDone

SpecPipe == InitPipe /\ [][NextPipe]_vars

----------------------------------------------------------------------------
(* The dump of one source of large rows, each filling a buffer of its own, *)
(* with goroutines that are scheduled fairly and sink Writes that return   *)

LiveConfigs ==
    {c \in TableConfigs : c.FileSize = UnspecifiedSize}

InitLive ==
    /\ Quiescent
    /\ buffers = [NoBuffers EXCEPT !.keeps = FALSE]
    /\ cfg \in LiveConfigs
    /\ rows = [i \in 1..MaxBigRows |-> BigRowLen]
    /\ dpc = "start"
    /\ wpc = "none"
    /\ fin = <<>>
    /\ fout = <<>>
    /\ fpc = "none"

\* the encoder goes on when its channel operation can proceed, and the
\* drain worker when it has a buffer to take or a Write to finish
Fairness ==
    /\ WF_vars(EncoderSend)
    /\ WF_vars(EncoderFlush)
    /\ WF_vars(EncoderWaitClosed)
    /\ WF_vars(WorkerRecv)
    /\ WF_vars(WorkerWrite)
    /\ WF_vars(WorkerInputClosed)

SpecLive == InitLive /\ [][Next]_vars /\ Fairness

----------------------------------------------------------------------------
(* writeTableData with a file-size limit, every step of it being taken *)

RotateConfigs == {c \in Configs : c.FileSize # UnspecifiedSize}

\* one finite source, to be written into files of limited size
InitRotate ==
    /\ Quiescent
    /\ buffers = [NoBuffers EXCEPT !.keeps = FALSE]
    /\ cfg \in RotateConfigs
    /\ rows \in RowSeqs
    /\ dpc = "start"
    /\ wpc = "none"
    /\ fin = <<>>
    /\ fout = <<>>
    /\ fpc = "none"

\* the steps of the driver, the encoder and the drain worker; the caller's
\* cancellation is not one of them
Program ==
    \/ WriteTableDataStart
    \/ WriteTableDataBuild
    \/ WriteTableDataAfter
    \/ WriteTableDataClose
    \/ WriteInsertStart
    \/ WriteInsertInCsvStart
    \/ WriteInsertOuter
    \/ WriteInsertRow
    \/ WriteInsertInCsvRow
    \/ EncoderSend
    \/ EncoderPoll
    \/ WriteInsertAfterInner
    \/ EncoderFlush
    \/ EncoderWaitClosed
    \/ EncoderWgWait
    \/ WorkerRecv
    \/ WorkerWrite
    \/ WorkerInputClosed
    \/ WorkerCtxDone

\* a goroutine that can take a step takes one, and every sink Write returns
SpecRotate == InitRotate /\ [][Next]_vars /\ WF_vars(Program)



----------------------------------------------------------------------------
(* Properties *)

IsPrefix(a, b) == Len(a) <= Len(b) /\ SubSeq(b, 1, Len(a)) = a

\* the tuples of rows i..j in iterator order
RowRange(i, j) == [n \in 1..(j - i + 1) |-> Row(i + n - 1)]

Max(a, b) == IF a >= b THEN a ELSE b

\* the encoder has returned to writeTableData
Returned == dpc = "encoding" /\ epc = "returned"

\* the files as they stand: the finished ones and the one the sink holds
FilesNow == IF dpc = "encoding" /\ sink # <<>> THEN Append(files, sink) ELSE files

\* C1: in an encoder invocation the sink receives the buffers handed to the
\* pipe in the order they were sent, none dropped, reordered or duplicated:
\* what the sink holds is always a prefix of what was sent, and when the
\* invocation returns nil it is all of it.
C1_SinkReceivesSentBuffersInOrder ==
    /\ dpc = "encoding" => IsPrefix(sink, sent)
    /\ (Returned /\ ret = "nil") => sink = sent

\* reached: an invocation returned nil after sending at least two buffers
C1_Witness ==
    /\ Returned /\ ret = "nil"
    /\ pos >= 2 /\ rowsThisInv >= 2
    /\ rows[pos - 1] = BigRowLen
    /\ sink = sent /\ Len(sink) >= 5

\* C2: with a file-size limit and no error or cancellation, the rows of the
\* files writeTableData produced for the source, concatenated in file order,
\* are exactly the source's rows in iterator order.
C2_RotatedFilesHoldEveryRowOnce ==
    (/\ cfg.FileSize # UnspecifiedSize
     /\ dpc = "done" /\ dret = "nil"
     /\ ~iterErr /\ ~pCtxDone)
    => RowsOf(Flatten(files)) = RowRange(1, Len(rows))

\* reached: a source of three rows was written into at least two files
C2_Witness ==
    /\ cfg.FileSize # UnspecifiedSize
    /\ dpc = "done" /\ dret = "nil"
    /\ ~iterErr /\ ~pCtxDone
    /\ Len(rows) >= 3 /\ Len(files) >= 2
    /\ Len(RowsOf(files[1])) >= 2

\* C3: the upload object of an Intercepting File Sink is created if and only
\* if at least one payload byte was offered to the sink through Write.
C3_CreatedIffPayloadOffered ==
    (createCalls > 0) <=> (offered > 0)

\* C4: an encoder invoked on a source with no remaining rows sends nothing to
\* the sink, creates no upload object, leaves SomethingIsWritten false and
\* returns nil, and writeTableData's rotation loop ends there.
C4_EmptyInvocationWritesNothing ==
    startedEmpty =>
        /\ sent = <<>> /\ sink = <<>> /\ bf = <<>>
        /\ writeCalls = 0 /\ createCalls = 0 /\ ~writerSet
        /\ ~SomethingIsWritten
        /\ ~workerStarted
        /\ ret = "nil"
        /\ dpc \in {"encoding", "close", "done"}
        /\ (dpc = "done" => dret = "nil")

\* reached: the extra invocation after the last rotated file found no row and
\* the loop ended
C4_Witness ==
    /\ startedEmpty
    /\ dpc = "done"
    /\ Len(files) >= 2
    /\ pos = Len(rows)

\* C5: when an encoder invocation returns nil, currentFileSize equals the
\* number of bytes the sink received during the invocation.
C5_FileSizeCountsSinkBytes ==
    (Returned /\ ret = "nil" /\ workerStarted) => wp.currentFileSize = BufLen(sink)

\* reached: an invocation that wrote a head, rows and a flushed buffer returned nil
C5_Witness ==
    /\ Returned /\ ret = "nil" /\ workerStarted
    /\ rowsThisInv >= 2
    /\ Head(sink).k \in {"cmt", "hdr"}
    /\ wp.currentFileSize > lengthLimit

\* the index of the last row tuple of f (0 if it holds none)
LastRowAt(f) ==
    LET at == {i \in 1..Len(f) : f[i].k = "row"}
    IN  IF at = {} THEN 0 ELSE CHOOSE i \in at : \A j \in at : j <= i

\* what an encoder writes before its first row, per row and per statement
HeadLen == IF cfg.fileFmt = "sql" THEN BufLen(SpecialComments) ELSE BufLen(CsvHeader)
TerminatorLen == IF cfg.fileFmt = "sql" THEN 2 ELSE 1
PrefixLen == IF cfg.fileFmt = "sql" THEN insertStatementPrefixLen ELSE 0

\* C6 as stated: with a file-size limit set, no file exceeds
\* fileSizeLimit + lengthLimit bytes, whatever the sizes of the rows.
C6_NoFileExceedsLimitPlusLengthLimit ==
    cfg.FileSize # UnspecifiedSize =>
        \A n \in 1..Len(FilesNow) : BufLen(FilesNow[n]) <= cfg.FileSize + lengthLimit

\* C6 as amended: with a file-size limit set, a file is at most the larger of
\* fileSizeLimit - 1 and the size of what precedes its first INSERT prefix
\* (the special comments or the CSV header), plus one INSERT prefix, plus its
\* last row with the row's terminator.
C6_FileExceedsLimitByAtMostOneRow ==
    cfg.FileSize # UnspecifiedSize =>
        \A n \in 1..Len(FilesNow) :
            LET f == FilesNow[n]
                r == LastRowAt(f)
            IN  BufLen(f) <= Max(cfg.FileSize - 1, HeadLen) + PrefixLen
                             + (IF r = 0 THEN 0 ELSE Size(f[r]) + TerminatorLen)

\* reached: a finished file is larger than fileSizeLimit + lengthLimit and a
\* second file was started after it
C6_Witness ==
    /\ cfg.FileSize # UnspecifiedSize
    /\ Len(files) >= 2
    /\ BufLen(files[1]) > cfg.FileSize + lengthLimit
    /\ Len(RowsOf(files[1])) >= 2

\* the INSERT groups of f: for each prefix, the tokens up to the next prefix
PrefixAt(f) == {i \in 1..Len(f) : f[i].k = "prefix"}
GroupEnd(f, p) ==
    LET later == {i \in PrefixAt(f) : i > p}
    IN  IF later = {} THEN Len(f) ELSE (CHOOSE i \in later : \A j \in later : i <= j) - 1
GroupOf(f, p) == SubSeq(f, p + 1, GroupEnd(f, p))

CancelledMidRows == cancelAt \in {"row", "ahead"}

\* C8 as stated: an encoder cancelled while it still has rows to process
\* returns the context's error.
C8_CancelledEncoderReturnsCtxErr ==
    (Returned /\ CancelledMidRows) => ret = "ctx"

\* C8 as amended: an encoder cancelled while it still has rows to process
\* decodes at most one more row (none if a row was in progress) and returns a
\* non-nil error: the context's error, or the error of that row's Decode, or
\* a sink write error that was pending at the poll (the select takes either
\* ready case).
C8_CancelledEncoderStopsWithError ==
    /\ rowsAfterCancel <= 1
    /\ cancelAt = "row" => rowsAfterCancel = 0
    /\ (Returned /\ CancelledMidRows) =>
           \/ ret = "ctx"
           \/ ret = "decode" /\ cancelAt = "ahead" /\ rowsAfterCancel = 0
           \/ ret \in {"write", "open"} /\ writeFailed

\* reached: cancelled with a row in progress and rows left, the encoder
\* returned the context's error
C8_Witness ==
    /\ Returned /\ cancelAt = "row"
    /\ ret = "ctx"
    /\ ~iterErr /\ pos < Len(rows)
    /\ rowsThisInv >= 2

\* C9: once an encoder that started its drain worker has returned, the worker
\* has terminated and the sink receives no further Write.
C9_WorkerTerminatedAtReturn ==
    /\ (workerStarted /\ epc \in {"returned", "idle"}) => wpc = "done"
    /\ lateWrites = 0

\* reached: the encoder returned on cancellation while buffers it had sent
\* were still queued
C9_Witness ==
    /\ Returned /\ workerStarted
    /\ ret = "ctx"
    /\ input # <<>>
    /\ sink # <<>>

\* the shape of WriteInsert's output, read token by token
SqlStep(st, k) ==
    CASE st = "head" /\ k = "cmt" -> "head"
      [] st \in {"head", "closed"} /\ k = "prefix" -> "prefix"
      [] st \in {"prefix", "comma"} /\ k = "row" -> "row"
      [] st = "row" /\ k = "comma" -> "comma"
      [] st = "row" /\ k = "semi" -> "closed"
      [] OTHER -> "bad"

RECURSIVE SqlShape(_, _)
SqlShape(f, st) == IF f = <<>> THEN st ELSE SqlShape(Tail(f), SqlStep(st, Head(f).k))

\* C10: if the iterator ends with an error after k >= 1 rows were decoded,
\* WriteInsert (its sink accepting every write and its context not cancelled)
\* delivers the special comments and closed INSERT groups holding exactly
\* those k rows in order, the last terminated by ';\n' -- one single group
\* when no size limit is set -- and returns the iterator's error.
C10_IteratorErrorClosesInsertGroup ==
    (/\ Returned /\ cfg.fileFmt = "sql"
     /\ iterErr /\ rowsThisInv >= 1
     /\ ~writeFailed /\ ~pCtxDone)
    => /\ ret = "iter"
       /\ sink = sent
       /\ SqlShape(sink, "head") = "closed"
       /\ sink[Len(sink)] = Semi
       /\ RowsOf(sink) = RowRange(pos - rowsThisInv + 1, pos)
       /\ (cfg.FileSize = UnspecifiedSize /\ cfg.StatementSize = UnspecifiedSize)
              => Cardinality(PrefixAt(sink)) = 1

\* reached: the iterator failed after two of three rows, with no size limit
C10_Witness ==
    /\ Returned /\ cfg.fileFmt = "sql"
    /\ iterErr /\ rowsThisInv = 2 /\ Len(rows) = 3
    /\ ~writeFailed /\ ~pCtxDone
    /\ cfg.FileSize = UnspecifiedSize /\ cfg.StatementSize = UnspecifiedSize
    /\ ret = "iter"
    /\ Len(sink) >= 5

\* C11: whenever an encoder invocation returns an iterator error (the error
\* Error() reports, or an error of Decode), every byte it had appended to its
\* buffers has been delivered to the sink before it returns (the sink
\* accepting every write).
C11_IteratorErrorAfterFullFlush ==
    (Returned /\ ret \in {"iter", "decode"} /\ ~writeFailed) => sink = sent \o bf

\* C12: if a sink Write failed during an encoder invocation, the invocation
\* does not return nil: it returns the recorded write error (taken at a poll
\* after a row or after the drain), or an iterator error, or the context's
\* error; and a write error is returned only if a Write did fail.
C12_WriteFailureNeverReturnsNil ==
    /\ (Returned /\ writeFailed) => ret \in {"write", "open", "iter", "decode", "ctx"}
    /\ (Returned /\ ret \in {"write", "open"}) => writeFailed

\* reached: the write of the last buffer failed and the encoder returned the
\* error after the drain had completed
C12_Witness ==
    /\ Returned /\ writeFailed
    /\ ret = "write"
    /\ inputClosed /\ input = <<>>
    /\ rowsThisInv >= 2

\* C13: in an encoder invocation that found a row and was not cancelled, when
\* both the iterator has failed and a sink Write has failed the iterator's
\* error is returned; the write error is returned only when the iterator has
\* no error, and nil only when neither happened.
C13_IteratorErrorWinsOverWriteError ==
    (Returned /\ workerStarted /\ ~pCtxDone /\ ret # "decode") =>
        /\ (iterErr /\ writeFailed) => ret = "iter"
        /\ ret \in {"write", "open"} => ~iterErr
        /\ ret = "nil" => (~iterErr /\ ~writeFailed)

\* C14: when WriteTableData returns, on whatever path, every connection it
\* took from the pool has been released: it holds none and the pool holds as
\* many connections as before the call.
C14_ConnectionsReleasedAtReturn ==
    tpc = "returned" => (held = 0 /\ pool = PoolSize)

\* C15: when WriteTableData finds the context cancelled at its select on the
\* source channel it returns the context's error; it returns nil only when
\* the stream was consumed to its end without error.
C15_CancelledSelectReturnsCtxErr ==
    /\ (tpc = "returned" /\ texit = "ctx") => tret = "ctx"
    /\ (tpc = "returned" /\ tret = "nil") => (texit = "closed" /\ irStream = <<>>)

C17_SourcesWrittenOneAtATime ==
    /\ held <= 1
    /\ tpc = "writing" => held = 1
    /\ tpc = "select" =>
           /\ held = 0 /\ pool = PoolSize
           /\ dpc = "idle" /\ epc = "idle"
           /\ writerSet => closeCalls = 1
    /\ Len(fileSrc) = Len(files)
    /\ \A i, j \in 1..Len(fileSrc) : i <= j => fileSrc[i] <= fileSrc[j]
    /\ \A i \in 1..Len(fileSrc) : fileSrc[i] \in 1..srcNo

\* reached: two sources were written, each into a file of its own, and the
\* stream was consumed to its end
C17_Witness ==
    /\ tpc = "returned" /\ tret = "nil" /\ texit = "closed"
    /\ srcNo = 2 /\ chunkIndex = 2
    /\ Len(fileSrc) >= 2
    /\ fileSrc[1] = 1 /\ fileSrc[Len(fileSrc)] = 2
    /\ held = 0

\* C18: the uploader factory of an Intercepting File Sink is called at most
\* once over the sink's lifetime; if that open failed, the first Write and
\* every later Write return the open error and no Write reaches an underlying
\* writer.
C18_UploaderOpenedAtMostOnce ==
    /\ createCalls <= 1
    /\ (wErr /\ writeCalls > 0) =>
           /\ lastRes = "open"
           /\ underWrites = 0 /\ sink = <<>>
           /\ ~writerSet

\* reached: the open failed at the first Write and two more Writes followed
C18_Witness ==
    /\ wErr /\ createCalls = 1
    /\ writeCalls >= 3
    /\ offered > 0
    /\ lastRes = "open"

\* C19: closing an Intercepting File Sink that was never opened is a no-op,
\* through InterceptFileWriter.Close as well as through the tearDownRoutine:
\* no error, no failure, no underlying writer touched; closing an opened sink
\* finalizes the underlying upload once.
C19_CloseOfUnopenedSinkIsNoOp ==
    /\ ~panicked
    /\ ~writerSet => closeCalls = 0
    /\ closeCalls <= 1

\* the n row tuples in iterator order, each of the first n - 1 followed by
\* ',\n' and the last by ';\n'
RowList(n) == [i \in 1..(2 * n) |-> IF i % 2 = 1 THEN Row((i + 1) \div 2)
                                    ELSE IF i = 2 * n THEN Semi ELSE Comma]

\* C20: for a source of n >= 1 rows, without size limits and without errors,
\* WriteInsert's output is each special comment followed by '\n', one INSERT
\* prefix, and the n row tuples in iterator order, the first n - 1 followed
\* by ',\n' and the last by ';\n', and nothing else.
C20_WriteInsertOutput ==
    (/\ cfg.fileFmt = "sql"
     /\ cfg.FileSize = UnspecifiedSize /\ cfg.StatementSize = UnspecifiedSize
     /\ Len(rows) >= 1
     /\ dpc = "done" /\ dret = "nil"
     /\ ~iterErr /\ ~pCtxDone)
    => files = <<SpecialComments \o <<Prefix>> \o RowList(Len(rows))>>

\* reached: three rows, the second a large one, written after a special comment
C20_Witness ==
    /\ cfg.fileFmt = "sql" /\ cfg.specCmts = 1
    /\ cfg.FileSize = UnspecifiedSize /\ cfg.StatementSize = UnspecifiedSize
    /\ Len(rows) = 3 /\ rows[2] = BigRowLen
    /\ dpc = "done" /\ dret = "nil"
    /\ ~iterErr /\ ~pCtxDone
    /\ Len(files) = 1 /\ Len(files[1]) = 8

\* C21: whatever the statement-size and file-size limits, a file produced by
\* a WriteInsert invocation that returns nil is the special comments followed
\* by one or more INSERT groups, each made of the INSERT prefix and at least
\* one row, its rows separated by ',\n' and the last followed by ';\n'.
C21_FileIsCommentsAndClosedGroups ==
    (Returned /\ cfg.fileFmt = "sql" /\ ret = "nil" /\ workerStarted) =>
        /\ IsPrefix(SpecialComments, sink)
        /\ Len(sink) > Len(SpecialComments)
        /\ sink[Len(SpecialComments) + 1] = Prefix
        /\ SqlShape(sink, "head") = "closed"

\* reached: a file of two groups, the first of two rows and closed by the
\* statement-size limit
C21_Witness ==
    /\ Returned /\ cfg.fileFmt = "sql" /\ ret = "nil" /\ workerStarted
    /\ cfg.StatementSize # UnspecifiedSize
    /\ Cardinality(PrefixAt(sink)) = 2
    /\ Len(RowsOf(sink)) = 3
    /\ \E i \in 1..Len(sink) : sink[i] = Comma

\* the column list of a table: the attribute selectedField, nothing for "*"
ColumnList(fields, completeInsert) ==
    LET sel == buildSelectField(fields, completeInsert) IN
    IF sel = <<"*">> THEN <<>> ELSE sel

PrefixCall == fpc = "done" /\ fin.fn = "insertStatementPrefix"

C24_HeaderLine ==
    (fpc = "done" /\ fin.fn = "csvHeaderLine") =>
        LET wrapped == [i \in 1..Len(fin.colNames) |->
                           <<"delimiter", escape(fin.colNames[i]), "delimiter">>]
        IN  fout = IF ~fin.noHeader /\ fin.colNames # <<>>
                     THEN Join(wrapped, "separator") \o <<"\n">>
                     ELSE <<>>

\* C27: for every table name the identifier in the INSERT prefix is the
\* name with each backtick doubled, between one leading and one trailing
\* backtick.
C27_TableNameQuoted ==
    PrefixCall =>
        LET quoted == <<Backtick>> \o escapeString(fin.tableName) \o <<Backtick>> IN
        /\ IsPrefix(<<"INSERT INTO ">> \o quoted, fout)
        /\ fout[Len(quoted) + 2] \in {" ", " VALUES\n"}

\* C28: Error() is a peek of the first write error: it returns nil while no
\* write has failed and does not remove the recorded error, so that once a
\* call has returned the error every later call returns the same error.
C28_ErrorIsAPeek ==
    /\ errsRecorded = 0 => \A i \in 1..Len(errResults) : errResults[i] = "nil"
    /\ \A i, j \in 1..Len(errResults) :
         (i < j /\ errResults[i] # "nil") => errResults[j] = errResults[i]

\* C30: a send of a buffer into the channel of capacity 8 does not block
\* forever and the wait for the drain worker's end after close(wp.input)
\* ends, also after a write error and after the caller's context is
\* cancelled, provided every sink Write returns.
C30_SendAndFinalWaitEnd ==
    /\ (epc = "send") ~> (epc # "send")
    /\ (epc = "flush") ~> (epc # "flush")
    /\ (epc = "waitClosed") ~> (epc # "waitClosed")

\* reached: the encoder is at a send with the channel full, after a failed
\* Write and the cancellation of the caller's context
C30_Witness ==
    /\ epc = "send"
    /\ Len(input) = inputCap
    /\ errOccurs
    /\ pCtxDone

\* C29: after the first failed sink Write the drain worker begins no other
\* Write for that pipe, so at most one error is recorded; the buffers it
\* receives afterwards are dropped unwritten.
C29_NoWriteAfterFailure ==
    /\ writesAfterFail = 0
    /\ errsRecorded <= 1
    /\ errOccurs => errsRecorded = 1
    /\ discarded > 0 => errsRecorded = 1

\* reached: the first of three buffers failed and the other two were dropped
C29_Witness ==
    /\ dpc = "pipe"
    /\ errsRecorded = 1
    /\ discarded = 2
    /\ writeCalls = 1
    /\ wpc = "done"

\* n data lines: each row in iterator order followed by '\n'
CsvLines(n) == [i \in 1..(2 * n) |-> IF i % 2 = 1 THEN Row((i + 1) \div 2) ELSE Newline]

CmtPieces(cmts) ==
    [k \in 1..(2 * Len(cmts)) |-> IF k % 2 = 1 THEN cmts[(k + 1) \div 2] ELSE "\n"]

MetaCall == fpc = "done" /\ fin.fn = "WriteMeta"

ResolveCall == fpc = "done" /\ fin.fn = "ResolveConfig"

\* C26: ResolveConfig rejects a configuration with both Sql and Where set
\* and one with both Rows and FileSize set, each with its own error, and
\* returns nil when neither holds and logger and TLS setup succeed; the
\* functions run in a fixed order, the first failing one gives the error
\* returned and no later one is run.
C26_FirstFailingValidatorDecides ==
    ResolveCall =>
        LET c == fin.conf
            setupOk == (c.Logger \/ c.logInitOk) /\ (~c.CAPath \/ c.tlsOk)
            sizeConflict == c.Rows # UnspecifiedSize /\ c.FileSize # UnspecifiedSize
            sqlConflict == c.Sql # "" /\ c.Where # ""
            n == Len(fout.ran)
        IN  /\ sizeConflict \/ sqlConflict => fout.ret # "nil"
            /\ setupOk /\ sizeConflict => fout.ret = "filesize"
            /\ setupOk /\ ~sizeConflict /\ sqlConflict => fout.ret = "sqlwhere"
            /\ setupOk /\ ~sizeConflict /\ ~sqlConflict => fout.ret = "nil"
            /\ IsPrefix(fout.ran, Validators)
            /\ \A i \in 1..(n - 1) : CallValidator(fout.ran[i], c) = "nil"
            /\ fout.ret = "nil" => n = Len(Validators)
            /\ fout.ret # "nil" => fout.ret = CallValidator(fout.ran[n], c)

\* reached: both conflicts present, validateFileSize's error is returned
\* and validateSpecifiedSQL is not run
C26_Witness ==
    /\ ResolveCall
    /\ fin.conf.Rows # UnspecifiedSize /\ fin.conf.FileSize # UnspecifiedSize
    /\ fin.conf.Sql # "" /\ fin.conf.Where # ""
    /\ fout.ret = "filesize"
    /\ fout.ran = <<"initLogger", "registerTLSConfig", "validateFileSize">>

\* what the running invocation has written so far: the buffers sent and the
\* one in flight
Out == sent \o bf

LastOf(f) == f[Len(f)]

\* the bytes of the statement in progress, its INSERT prefix included
StatementBytes(f) ==
    LET at == PrefixAt(f)
        p == CHOOSE i \in at : \A j \in at : j <= i
    IN  IF at = {} THEN 0 ELSE BufLen(SubSeq(f, p, Len(f)))

FileLimitReached(w) ==
    cfg.FileSize # UnspecifiedSize /\ w.currentFileSize >= cfg.FileSize
StatementLimitReached(w) ==
    cfg.StatementSize # UnspecifiedSize /\ w.currentStatementSize >= cfg.StatementSize

InWriteInsert == cfg.fileFmt = "sql" /\ dpc = "encoding"

C31_Closed ==
    InWriteInsert =>
        /\ epc \in {"afterInner", "flush"} => (Out # <<>> /\ LastOf(Out) = Semi)
        /\ epc \in {"inner", "send", "poll", "afterInner"} =>
              wp.currentStatementSize = StatementBytes(Out)

C31_Step ==
    InWriteInsert =>
        /\ (epc = "inner" /\ epc' \in {"send", "poll"}
              /\ (StatementLimitReached(wp') \/ FileLimitReached(wp')))
             => LastOf(bf') = Semi
        /\ (epc = "afterInner" /\ epc' # epc) =>
              IF FileLimitReached(wp)
                THEN epc' = "flush" /\ Out' = Out /\ pos' = pos
                ELSE epc' = "outer"
        /\ (epc = "outer" /\ HasNext /\ epc' # epc) =>
              /\ Out' = Append(Out, Prefix)
              /\ wp'.currentStatementSize = insertStatementPrefixLen
              /\ invocations' = invocations
              /\ createCalls' >= createCalls
              /\ sink' = sink \/ IsPrefix(sink, sink')
        /\ (epc = "flush" /\ epc' # epc) => pos' = pos

\* C31: in WriteInsert, a row after which the statement-size or file-size
\* limit is reached is followed by ';\n'; when the file-size limit is not
\* reached and rows remain, a new INSERT prefix is written in the same
\* invocation to the same sink and currentStatementSize counts from 0 again;
\* when the file-size limit is reached the invocation ends without another
\* prefix and reads no further row.
C31_RotationSemantics == []C31_Closed /\ [][C31_Step]_vars

\* reached: a second statement begun in the same invocation after the
\* statement-size limit closed the first, rows remaining
C31_Witness ==
    /\ InWriteInsert
    /\ epc = "inner"
    /\ cfg.StatementSize # UnspecifiedSize
    /\ Cardinality(PrefixAt(Out)) = 2
    /\ ~FileLimitReached(wp)
    /\ HasNext
    /\ invocations = 1

Range(f) == {f[i] : i \in 1..Len(f)}

\* C32: every buffer has one owner at a time: the buffer the encoder appends
\* to is not one it has sent (it is in neither the channel nor the drain
\* worker's hands), a buffer is in the pool only once the drain worker has
\* written it and let go of it, and no buffer is at once in the pool and
\* held by the encoder, the channel or the drain worker.
C32_OneOwnerPerBuffer ==
    LET b == buffers
        queued == Range(b.input)
    IN  /\ b.enc # 0 => b.enc \notin (queued \cup {b.cur} \cup b.pool)
        /\ b.cur # 0 => b.cur \notin (queued \cup b.pool)
        /\ queued \cap b.pool = {}
        /\ Cardinality(queued) = Len(b.input)
        /\ wpc \in {"idle", "writing", "done"} =>
              /\ Len(b.input) = Len(input)
              /\ (b.cur # 0) = (wpc = "writing")
        /\ epc \in {"outer", "inner", "csvLoop", "send", "poll", "afterInner", "flush"}
              => b.enc # 0

\* reached: the encoder holds its fourth buffer, one waits in the channel,
\* the drain worker writes another and the first is back in the pool
C32_Witness ==
    /\ dpc = "encoding"
    /\ buffers.enc = 4
    /\ buffers.input # <<>>
    /\ buffers.cur # 0
    /\ buffers.pool = {1}

\* C33: both encoders respect the Row Iterator protocol.  In the record of
\* the calls made on one Row Iterator every Decode happens while HasNext is
\* true and at a position not decoded before, every Decode but the first
\* directly follows a Next, and every Next directly follows the Decode of
\* the same position: one Decode and then one Next per row.
C33_IteratorProtocol ==
    \A i \in 1..Len(iterCalls) :
        /\ iterCalls[i].op \in {"Decode", "Next"}
        /\ iterCalls[i].op = "Decode" =>
              /\ iterCalls[i].hasNext
              /\ \A j \in 1..(i - 1) :
                    iterCalls[j].op = "Decode" => iterCalls[j].pos # iterCalls[i].pos
              /\ i > 1 => iterCalls[i - 1].op = "Next"
        /\ iterCalls[i].op = "Next" =>
              /\ i > 1
              /\ iterCalls[i - 1].op = "Decode"
              /\ iterCalls[i - 1].pos = iterCalls[i].pos

\* the case: rows decoded and advanced over, the last of them in a second
\* encoder invocation on the same Row Iterator, and then a Decode that failed
C33_Witness ==
    /\ invocations = 2
    /\ Len(iterCalls) = 5
    /\ iterCalls[5].op = "Decode"
    /\ ret = "decode"
    /\ rowsThisInv = 1

\* C34: within one WriteTableData call the Index values that the names of
\* the data files were rendered with are pairwise distinct, over all the
\* sources of the table and all the files a source was rotated into, so no
\* two data files of the table have one name; and within one source every
\* NextName call renders with the Index of the call before it plus one.
C34_DistinctFileIndexes ==
    /\ \A i, j \in 1..Len(fileIdx) : i # j => fileIdx[i] # fileIdx[j]
    /\ \A i \in 2..Len(names) :
          names[i].src = names[i - 1].src => names[i].index = names[i - 1].index + 1

\* C35: an encoder invocation never swallows an iterator error: one that
\* returns while the Row Iterator has failed (HasNext false, Error() non-nil)
\* returns a non-nil error, also when the failure shows at the first HasNext
\* of the invocation, before any row is decoded.
C35_IteratorErrorNeverSwallowed ==
    (Returned /\ iterErr) => ret # "nil"

\* an encoder invocation that found a row at its entry consumed a row, or
\* returns an error; one that found none wrote nothing and returns nil; and
\* invocation number k begins with at least k - 1 rows consumed
C36_Progress ==
    /\ (Returned /\ ~startedEmpty /\ ret = "nil") => rowsThisInv >= 1
    /\ (Returned /\ startedEmpty) =>
          (ret = "nil" /\ rowsThisInv = 0 /\ sink = <<>> /\ ~SomethingIsWritten)
    /\ invocations <= pos + 1
    /\ invocations <= Len(rows) + 1

\* after an invocation that found no row the driver leaves the loop
C36_EmptyEndsLoop ==
    (dpc = "encoding" /\ startedEmpty) => dpc' \in {"encoding", "close"}

\* C36: for a finite source and sink writes that return, the rotation loop
\* of writeTableData ends: every encoder invocation begun while rows remain
\* consumes at least one row, also when the comments, the header or the
\* prefix alone reach the file-size or statement-size limit, and one begun
\* with no row left writes nothing and ends the loop.
C36_RotationLoopTerminates ==
    /\ []C36_Progress
    /\ [][C36_EmptyEndsLoop]_vars
    /\ <>(dpc = "done")

\* reached: with a file-size limit that the prefix alone exceeds, the third
\* invocation returned having consumed the third row of the source
C36_Witness ==
    /\ Returned
    /\ cfg.FileSize = TinySize
    /\ invocations = 3
    /\ rowsThisInv >= 1
    /\ pos = 3
    /\ ret = "nil"

\* the driver has the sink to itself: the encoder has returned and no drain
\* worker is running or inside a Write
DriverAlone == epc = "returned" /\ wpc # "writing" /\ (workerStarted => wpc = "done")

\* the sink's flag, its writer and its once change only in a Write of the
\* drain worker or when the driver builds a new sink, and the driver reads
\* the flag and tears the sink down only when it has the sink to itself
C37_Step ==
    /\ (SomethingIsWritten' # SomethingIsWritten \/ writerSet' # writerSet \/ once' # once) =>
            \/ wpc = "writing" /\ wpc' = "idle" /\ dpc = "encoding" /\ epc # "returned"
            \/ dpc = "build" /\ dpc' = "encoding"
    /\ (dpc = "encoding" /\ dpc' # "encoding") => DriverAlone
    /\ closeCalls' > closeCalls => DriverAlone

\* C37: the sink's SomethingIsWritten flag and its writer are written only
\* by the drain worker inside Write, and writeTableData and the teardown
\* read them only after the encoder has returned and the drain worker has
\* ended: the driver never reads the flag or closes the writer while a Write
\* is in progress.
C37_SinkReadAfterWorkerEnd ==
    /\ [](dpc # "encoding" => wpc # "writing")
    /\ [][C37_Step]_vars

\* reached: an encoder returned on a Decode error with sent buffers still
\* queued, and the driver then tore down the sink that the worker had opened
C37_Witness ==
    /\ dpc = "done"
    /\ ret = "decode"
    /\ workerStarted /\ wpc = "done"
    /\ input # <<>>
    /\ SomethingIsWritten /\ writerSet
    /\ closeCalls = 1

\* C38: for every Table Data Source that WriteTableData has started, the
\* Row Iterator of the source is closed before the connection of the source
\* is released to the pool, on every path: a step that releases the
\* connection starts with the iterator closed.
C38_IteratorClosedBeforeRelease ==
    [][held' < held => iterClosed]_vars

====
